---- MODULE Spec2Model ----
(***************************************************************************)
(* Model of the relay daemon's ctf_trace object life cycle (lookup or      *)
(* create, reference counting, RCU-deferred reclamation, close, viewer     *)
(* metadata stream) and of the viewer session attach/detach protocol.      *)
(***************************************************************************)
EXTENDS Integers, Sequences, FiniteSets, TLC

\* ------------------------------------------------------------------ bounds
NThreads == 2
MaxTraces == 2
MaxStreams == 2
MaxVStreams == 2
MaxOutputs == 2
MaxNbOutput == 3

Threads == 1..NThreads
TraceObj == 1..MaxTraces
StreamObj == 1..MaxStreams
VStreamObj == 1..MaxVStreams
OutputObj == 1..MaxOutputs
Sessions == {"s1", "s2"}
\* the relay session the ctf_trace workload runs on
CtfSessions == {"s1"}
Paths == {"ust/a", "ust/b"}
VSessions == {"v1", "v2"}

\* the threads that make viewer session calls concurrently
ViewerThreads == {"t1", "t2"}
NULL == "NULL"

VARIABLES
    last_relay_ctf_trace_id, \* the process-wide id counter
    nalloc,                  \* number of ctf_trace objects zmalloc'ed so far
    trace,                   \* TraceObj -> the fields of struct ctf_trace
    ctf_traces_ht,           \* Sessions -> set of published trace nodes
    session_ref,             \* Sessions -> reference count of the session
    session_owner,           \* Sessions -> the connection still owns its ref
    stream,                  \* StreamObj -> relay stream (state, trace)
    rcu_reader,              \* Threads -> inside rcu_read_lock()
    rcu_wait,                \* TraceObj -> readers the grace period waits for
    pc,                      \* Threads -> position in the running function
    loc,                     \* Threads -> locals of the running function
    aborted,                 \* process ended by a failed assertion / fault
    tsc_calls,               \* streams try_stream_close was called on, and the
                             \* return value, of the last ctf_trace_close
    vstream,                 \* TraceObj -> the trace's viewer metadata stream
    vheld,                   \* Threads -> the viewer stream returned to it
    viewer_attached,         \* Sessions -> session->viewer_attached
    current_trace_chunk,     \* Sessions -> session->current_trace_chunk
    session_list,            \* VSessions -> vsession->session_list
    vs_chunk,                \* VSessions -> vsession->current_trace_chunk
    vs_ret,                  \* the last viewer session call and its result
    detached,                \* history: Sessions -> a detach has succeeded
    viewer_streams_ht,       \* VStreamObj -> viewer stream of the global table
    attach_ok,               \* history: Sessions -> attaches that returned Ok
                             \* since the last detach that returned 0
    tsdl_call,               \* the last TSDL emitter call and its arguments
    tsdl_ret,                \* what that call returned, threw or ended with
    metadata,                \* fragments passed to append_metadata_fragment
    next_output_id,          \* snapshot->next_output_id
    snapshot_output,         \* OutputObj -> a struct snapshot_output and the
                             \* output_init call made on it
    output_ht,               \* snapshot->output_ht and the outputs in it
    nb_output,               \* snapshot->nb_output
    snapshot_ret,            \* the last lookup in the snapshot and the
                             \* output it returned
    session_lock,            \* Sessions -> thread holding session->lock
    session_list_lock,       \* VSessions -> thread holding
                             \* vsession->session_list_lock
    rcu_nesting,             \* ViewerThreads -> depth of its rcu_read_lock()
    vcall                    \* ViewerThreads -> the viewer session call it
                             \* is in and its position there

ctfvars == <<last_relay_ctf_trace_id, nalloc, trace, ctf_traces_ht,
             session_ref, session_owner, stream, rcu_reader, rcu_wait, pc,
             loc, aborted, tsc_calls>>

lockvars == <<session_lock, session_list_lock, rcu_nesting, vcall>>

vsvars == <<viewer_attached, current_trace_chunk, session_list, vs_chunk,
            vs_ret, detached, viewer_streams_ht, attach_ok, lockvars>>

vmsvars == <<vstream, vheld>>

tsdlvars == <<tsdl_call, tsdl_ret, metadata>>

snaptabvars == <<output_ht, nb_output, snapshot_ret>>

snapvars == <<next_output_id, snapshot_output, snaptabvars>>

vars == <<ctfvars, vmsvars, vsvars, tsdlvars, snapvars>>

\* ------------------------------------------------------------ ctf_trace
\* zmalloc<ctf_trace>(): every field zero.
ZeroTrace ==
    [mem |-> "unalloc", ref |-> 0, session |-> NULL, path |-> NULL, id |-> 0,
     list_init |-> FALSE, locks_init |-> FALSE, node_key |-> NULL,
     stream_list |-> <<>>, viewer_metadata_stream |-> 0,
     \* history: the readers whose read-side section was in progress when
     \* the count reached zero and has not ended since
     zero_readers |-> {}]

\* a struct snapshot_output no output_init call was made on
NoOutput == [state |-> "none"]

\* a viewer thread that is in no viewer session call
NoCall == [fn |-> "none", pc |-> "idle", vsession |-> NULL, session |-> NULL,
           todo |-> <<>>, copy_ok |-> FALSE, ret |-> "none"]

NoLocals == [session |-> NULL, path |-> NULL, node |-> 0, trace |-> 0,
             vnode |-> 0]

Init ==
    /\ last_relay_ctf_trace_id = 0
    /\ nalloc = 0
    /\ trace = [t \in TraceObj |-> ZeroTrace]
    /\ ctf_traces_ht = [s \in Sessions |-> {}]
    /\ session_ref = [s \in Sessions |-> 1]
    /\ session_owner = [s \in Sessions |-> TRUE]
    /\ stream = [st \in StreamObj |-> [state |-> "none", trace |-> 0]]
    /\ rcu_reader = [th \in Threads |-> FALSE]
    /\ rcu_wait = [t \in TraceObj |-> {}]
    /\ pc = [th \in Threads |-> "idle"]
    /\ loc = [th \in Threads |-> NoLocals]
    /\ aborted = "no"
    /\ tsc_calls = [trace |-> 0, calls |-> <<>>, ret |-> 0]
    /\ vstream = [t \in TraceObj |-> [ref |-> 0, owned |-> 0]]
    /\ vheld = [th \in Threads |-> 0]
    /\ viewer_attached = [s \in Sessions |-> FALSE]
    /\ current_trace_chunk = [s \in Sessions |->
                                 IF s = "s1" THEN "chunk" ELSE NULL]
    /\ session_list = [v \in VSessions |-> <<>>]
    /\ vs_chunk = [v \in VSessions |-> NULL]
    /\ vs_ret = [op |-> "none", vsession |-> NULL, session |-> NULL,
                 code |-> "none"]
    /\ detached = [s \in Sessions |-> FALSE]
    /\ viewer_streams_ht = [v \in VStreamObj |-> [ref |-> 0, session |-> NULL]]
    /\ attach_ok = [s \in Sessions |-> 0]
    /\ tsdl_call = [op |-> "none"]
    /\ tsdl_ret = [status |-> "none"]
    /\ metadata = <<>>
    /\ next_output_id = 0
    /\ snapshot_output = [o \in OutputObj |-> NoOutput]
    /\ output_ht = [ht |-> "valid", nodes |-> {}]
    /\ nb_output = 0
    /\ snapshot_ret = [op |-> "none", name |-> <<>>, ret |-> 0]
    /\ session_lock = [s \in Sessions |-> NULL]
    /\ session_list_lock = [v \in VSessions |-> NULL]
    /\ rcu_nesting = [t \in ViewerThreads |-> 0]
    /\ vcall = [t \in ViewerThreads |-> NoCall]

Running == aborted = "no"

\* rcu_read_unlock() by th: a pending grace period stops waiting for th.
RcuUnlock(th) ==
    /\ rcu_reader' = [rcu_reader EXCEPT ![th] = FALSE]
    /\ rcu_wait' = [t \in TraceObj |-> rcu_wait[t] \ {th}]

\* The readers in a read-side section, other than th.
Readers(th) == {r \in Threads : rcu_reader[r]} \ {th}

\* Mutation: a plain urcu_ref_get(), which also raises a count of zero.
Mut_urcu_ref_get(ref) == ref + 1

\* urcu_ref_get_unless_zero(): the count after the call.
urcu_ref_get_unless_zero(ref) == IF ref > 0 THEN ref + 1 ELSE ref

\* ctf_trace_get(): TRUE iff a reference was taken.
ctf_trace_get(t) == trace[t].ref > 0

\* lttng_ht_lookup(session->ctf_traces_ht, subpath): the nodes with that key.
HtLookup(s, p) == {t \in ctf_traces_ht[s] : trace[t].node_key = p}

\* The node of trace t is in some session's table.
InTable(t) == \E s \in Sessions : t \in ctf_traces_ht[s]

\* ctf_trace_get_by_path_or_create(): the table lookup inside the read-side
\* section. A miss leaves the section at once and goes on to create.
GbpCall(th, s, p) ==
    /\ Running
    /\ pc[th] = "idle"
    /\ loc[th].trace = 0
    /\ \E n \in (IF HtLookup(s, p) = {} THEN {0} ELSE HtLookup(s, p)) :
          /\ loc' = [loc EXCEPT ![th] = [NoLocals EXCEPT !.session = s,
                                           !.path = p, !.node = n]]
          /\ pc' = [pc EXCEPT ![th] =
                       IF n = 0 THEN "create_alloc" ELSE "gbp_get"]
          /\ rcu_reader' = [rcu_reader EXCEPT ![th] = (n # 0)]
    /\ UNCHANGED <<last_relay_ctf_trace_id, nalloc, trace, ctf_traces_ht,
                   session_ref, session_owner, stream, rcu_wait, aborted, tsc_calls, vmsvars, vsvars,
                   tsdlvars, snapvars>>

\* ctf_trace_get_by_path_or_create(): ctf_trace_get() on the node found, then
\* rcu_read_unlock(); returns the trace, or goes on to create when the trace
\* is being torn down.
GbpGet(th) ==
    /\ Running
    /\ pc[th] = "gbp_get"
    /\ LET t == loc[th].node
           got == ctf_trace_get(t)
       IN /\ trace' = [u \in TraceObj |->
                [trace[u] EXCEPT
                   !.ref = IF u = t THEN urcu_ref_get_unless_zero(@) ELSE @,
                   !.zero_readers = @ \ {th}]]
          /\ loc' = [loc EXCEPT ![th] =
                       IF got THEN [NoLocals EXCEPT !.trace = t]
                       ELSE @]
          /\ pc' = [pc EXCEPT ![th] = IF got THEN "idle" ELSE "create_alloc"]
    /\ RcuUnlock(th)
    /\ UNCHANGED <<last_relay_ctf_trace_id, nalloc, ctf_traces_ht,
                   session_ref, session_owner, stream, aborted, tsc_calls, vmsvars, vsvars,
                   tsdlvars, snapvars>>

\* Mutation: the trace is given its session without session_get.
Mut_CreateAlloc_NoSessionGet(th) ==
    /\ Running
    /\ pc[th] = "create_alloc"
    /\ IF nalloc = MaxTraces
       THEN /\ pc' = [pc EXCEPT ![th] = "idle"]
            /\ loc' = [loc EXCEPT ![th] = NoLocals]
            /\ UNCHANGED <<nalloc, trace>>
       ELSE LET t == nalloc + 1
                s == loc[th].session
            IN /\ nalloc' = t
               /\ loc' = [loc EXCEPT ![th].trace = t, ![th].node = 0]
               /\ trace' = [trace EXCEPT ![t] =
                     [ZeroTrace EXCEPT !.mem = "alloc", !.ref = 1,
                                       !.session = s]]
               /\ pc' = [pc EXCEPT ![th] = "create_init"]
    /\ UNCHANGED <<last_relay_ctf_trace_id, ctf_traces_ht, session_ref,
                   session_owner, stream, rcu_reader, rcu_wait, aborted,
                   tsc_calls, vmsvars, vsvars, tsdlvars, snapvars>>

\* ctf_trace_create(): zmalloc and urcu_ref_init, then session_get(session).
CreateAlloc(th) ==
    /\ Running
    /\ pc[th] = "create_alloc"
    /\ IF nalloc = MaxTraces
       THEN \* zmalloc fails: return NULL
            /\ pc' = [pc EXCEPT ![th] = "idle"]
            /\ loc' = [loc EXCEPT ![th] = NoLocals]
            /\ UNCHANGED <<nalloc, trace, session_ref>>
       ELSE LET t == nalloc + 1
                s == loc[th].session
            IN /\ nalloc' = t
               /\ loc' = [loc EXCEPT ![th].trace = t, ![th].node = 0]
               /\ IF session_ref[s] > 0
                  THEN /\ session_ref' = [session_ref EXCEPT ![s] = @ + 1]
                       /\ trace' = [trace EXCEPT ![t] =
                             [ZeroTrace EXCEPT !.mem = "alloc", !.ref = 1,
                                               !.session = s]]
                       /\ pc' = [pc EXCEPT ![th] = "create_init"]
                  ELSE /\ trace' = [trace EXCEPT ![t] =
                             [ZeroTrace EXCEPT !.mem = "alloc", !.ref = 1]]
                       /\ pc' = [pc EXCEPT ![th] = "create_error"]
                       /\ UNCHANGED session_ref
    /\ UNCHANGED <<last_relay_ctf_trace_id, ctf_traces_ht, session_owner,
                   stream, rcu_reader, rcu_wait, aborted, tsc_calls, vmsvars, vsvars,
                   tsdlvars, snapvars>>

\* Mutation: the node is added to the table right after strdup, before the
\* stream list head and the id are set.
Mut_CreateInit_PublishEarly(th) ==
    /\ Running
    /\ pc[th] = "create_init"
    /\ LET t == loc[th].trace
           s == loc[th].session
       IN /\ trace' = [trace EXCEPT ![t].path = loc[th].path,
                                    ![t].node_key = loc[th].path]
          /\ ctf_traces_ht' = [ctf_traces_ht EXCEPT ![s] = @ \cup {t}]
          /\ pc' = [pc EXCEPT ![th] = "create_publish"]
    /\ UNCHANGED <<last_relay_ctf_trace_id, nalloc, session_ref, session_owner,
                   stream, rcu_reader, rcu_wait, loc, aborted, tsc_calls, vmsvars, vsvars,
                   tsdlvars, snapvars>>

\* Mutation: the id is read from the counter without storing the increment.
Mut_CreateInit_NoIncrement(th) ==
    /\ Running
    /\ pc[th] = "create_init"
    /\ LET t == loc[th].trace
       IN /\ trace' = [trace EXCEPT ![t].path = loc[th].path,
                                    ![t].list_init = TRUE,
                                    ![t].id = last_relay_ctf_trace_id + 1]
          /\ pc' = [pc EXCEPT ![th] = "create_publish"]
    /\ UNCHANGED <<last_relay_ctf_trace_id, nalloc, ctf_traces_ht, session_ref,
                   session_owner, stream, rcu_reader, rcu_wait, loc, aborted,
                   tsc_calls, vmsvars, vsvars,
                   tsdlvars, snapvars>>

\* ctf_trace_create(): strdup(subpath), the stream list head and the id taken
\* from the process-wide counter under last_relay_ctf_trace_id_lock.
CreateInit(th) ==
    /\ Running
    /\ pc[th] = "create_init"
    /\ LET t == loc[th].trace
       IN \/ /\ trace' = [trace EXCEPT ![t].path = loc[th].path,
                                       ![t].list_init = TRUE,
                                       ![t].id = last_relay_ctf_trace_id + 1]
             /\ last_relay_ctf_trace_id' = last_relay_ctf_trace_id + 1
             /\ pc' = [pc EXCEPT ![th] = "create_publish"]
          \/ \* strdup fails
             /\ pc' = [pc EXCEPT ![th] = "create_error"]
             /\ UNCHANGED <<trace, last_relay_ctf_trace_id>>
    /\ UNCHANGED <<nalloc, ctf_traces_ht, session_ref, session_owner, stream,
                   rcu_reader, rcu_wait, loc, aborted, tsc_calls, vmsvars, vsvars,
                   tsdlvars, snapvars>>

\* ctf_trace_create(): node init, locks, lttng_ht_add_str(); returns the trace.
CreatePublish(th) ==
    /\ Running
    /\ pc[th] = "create_publish"
    /\ LET t == loc[th].trace
           s == loc[th].session
       IN /\ trace' = [trace EXCEPT ![t].node_key = trace[t].path,
                                    ![t].session = s,
                                    ![t].locks_init = TRUE]
          /\ ctf_traces_ht' = [ctf_traces_ht EXCEPT ![s] = @ \cup {t}]
          /\ loc' = [loc EXCEPT ![th] = [NoLocals EXCEPT !.trace = t]]
    /\ pc' = [pc EXCEPT ![th] = "idle"]
    /\ UNCHANGED <<last_relay_ctf_trace_id, nalloc, session_ref,
                   session_owner, stream, rcu_reader, rcu_wait, aborted,
                   tsc_calls, vmsvars, vsvars,
                   tsdlvars, snapvars>>

\* ctf_trace_put(): rcu_read_lock() and urcu_ref_put(); the caller's local
\* reference is gone. At zero the release callback runs next, else the
\* read-side section ends and the function returns.
PutDec(th, t) ==
    /\ trace' = [trace EXCEPT ![t].ref = @ - 1,
                              ![t].zero_readers =
                                  IF trace[t].ref = 1 THEN Readers(th) ELSE @]
    /\ IF trace[t].ref = 1
       THEN /\ pc' = [pc EXCEPT ![th] = "release"]
            /\ loc' = [loc EXCEPT ![th] = [NoLocals EXCEPT !.node = t]]
            /\ rcu_reader' = [rcu_reader EXCEPT ![th] = TRUE]
            /\ UNCHANGED rcu_wait
       ELSE /\ pc' = [pc EXCEPT ![th] = "idle"]
            /\ loc' = [loc EXCEPT ![th] = NoLocals]
            /\ UNCHANGED <<rcu_reader, rcu_wait>>

\* ctf_trace_put() by the holder of a returned reference.
CtfTracePut(th) ==
    /\ Running
    /\ pc[th] = "idle"
    /\ loc[th].trace # 0
    /\ PutDec(th, loc[th].trace)
    /\ UNCHANGED <<last_relay_ctf_trace_id, nalloc, ctf_traces_ht,
                   session_ref, session_owner, stream, aborted, tsc_calls, vmsvars, vsvars,
                   tsdlvars, snapvars>>

\* ctf_trace_create(), label error: ctf_trace_put(trace), return NULL.
CreateError(th) ==
    /\ Running
    /\ pc[th] = "create_error"
    /\ PutDec(th, loc[th].trace)
    /\ UNCHANGED <<last_relay_ctf_trace_id, nalloc, ctf_traces_ht,
                   session_ref, session_owner, stream, aborted, tsc_calls, vmsvars, vsvars,
                   tsdlvars, snapvars>>

\* Mutation: the release callback destroys the trace without deleting its
\* node from the table.
Mut_CtfTraceRelease_NoDel(th) ==
    /\ Running
    /\ pc[th] = "release"
    /\ pc' = [pc EXCEPT ![th] = "destroy"]
    /\ UNCHANGED <<last_relay_ctf_trace_id, nalloc, trace, ctf_traces_ht,
                   session_ref, session_owner, stream, rcu_reader, rcu_wait,
                   loc, aborted, tsc_calls, vmsvars, vsvars,
                   tsdlvars, snapvars>>

\* ctf_trace_release(): lttng_ht_del() from trace->session->ctf_traces_ht and
\* the assertion on its result. trace->session is NULL when session_get
\* failed (a fault); the node was never added when strdup failed.
CtfTraceRelease(th) ==
    /\ Running
    /\ pc[th] = "release"
    /\ LET t == loc[th].node
           s == trace[t].session
       IN IF s = NULL
          THEN /\ aborted' = "fault"
               /\ UNCHANGED <<ctf_traces_ht, pc>>
          ELSE IF t \notin ctf_traces_ht[s]
          THEN \* deleting a node that is in no table: the assertion fails,
               \* or the deletion reports success and destroy runs
               \/ /\ aborted' = "assert"
                  /\ UNCHANGED <<ctf_traces_ht, pc>>
               \/ /\ pc' = [pc EXCEPT ![th] = "destroy"]
                  /\ UNCHANGED <<ctf_traces_ht, aborted>>
          ELSE /\ ctf_traces_ht' = [ctf_traces_ht EXCEPT ![s] = @ \ {t}]
               /\ pc' = [pc EXCEPT ![th] = "destroy"]
               /\ UNCHANGED aborted
    /\ UNCHANGED <<last_relay_ctf_trace_id, nalloc, trace, session_ref,
                   session_owner, stream, rcu_reader, rcu_wait, loc,
                   tsc_calls, vmsvars, vsvars,
                   tsdlvars, snapvars>>

\* ctf_trace_destroy(): the stream list must be empty; session_put(), the
\* session and path fields are cleared and the memory is handed to call_rcu;
\* then ctf_trace_put() leaves its read-side section.
CtfTraceDestroy(th) ==
    /\ Running
    /\ pc[th] = "destroy"
    /\ LET t == loc[th].node
           s == trace[t].session
       IN IF ~(trace[t].list_init /\ trace[t].stream_list = <<>>)
          THEN /\ aborted' = "assert"
               /\ UNCHANGED <<trace, session_ref, rcu_reader, rcu_wait, pc,
                              loc>>
          ELSE /\ session_ref' = [session_ref EXCEPT ![s] = @ - 1]
               /\ trace' = [u \in TraceObj |->
                     [trace[u] EXCEPT
                        !.session = IF u = t THEN NULL ELSE @,
                        !.path = IF u = t THEN NULL ELSE @,
                        !.mem = IF u = t THEN "scheduled" ELSE @,
                        !.zero_readers = @ \ {th}]]
               /\ rcu_reader' = [rcu_reader EXCEPT ![th] = FALSE]
               /\ rcu_wait' = [u \in TraceObj |->
                     IF u = t THEN Readers(th) ELSE rcu_wait[u] \ {th}]
               /\ pc' = [pc EXCEPT ![th] = "idle"]
               /\ loc' = [loc EXCEPT ![th] = NoLocals]
               /\ UNCHANGED aborted
    /\ UNCHANGED <<last_relay_ctf_trace_id, nalloc, ctf_traces_ht,
                   session_owner, stream, tsc_calls, vmsvars, vsvars,
                   tsdlvars, snapvars>>

\* Mutation: the trace is freed without waiting for the grace period.
Mut_free_now(t) ==
    /\ Running
    /\ trace[t].mem = "scheduled"
    /\ trace' = [trace EXCEPT ![t].mem = "freed"]
    /\ UNCHANGED <<last_relay_ctf_trace_id, nalloc, ctf_traces_ht,
                   session_ref, session_owner, stream, rcu_reader, rcu_wait,
                   pc, loc, aborted, tsc_calls, vmsvars, vsvars,
                   tsdlvars, snapvars>>

\* rcu_destroy_ctf_trace(): free(trace) once the grace period has elapsed.
rcu_destroy_ctf_trace(t) ==
    /\ Running
    /\ trace[t].mem = "scheduled"
    /\ rcu_wait[t] = {}
    /\ trace' = [trace EXCEPT ![t].mem = "freed"]
    /\ UNCHANGED <<last_relay_ctf_trace_id, nalloc, ctf_traces_ht,
                   session_ref, session_owner, stream, rcu_reader, rcu_wait,
                   pc, loc, aborted, tsc_calls, vmsvars, vsvars,
                   tsdlvars, snapvars>>

\* The connection that owns the session drops its reference (session_put).
SessionOwnerPut(s) ==
    /\ Running
    /\ session_owner[s]
    /\ session_owner' = [session_owner EXCEPT ![s] = FALSE]
    /\ session_ref' = [session_ref EXCEPT ![s] = @ - 1]
    /\ UNCHANGED <<last_relay_ctf_trace_id, nalloc, trace, ctf_traces_ht,
                   stream, rcu_reader, rcu_wait, pc, loc, aborted, tsc_calls, vmsvars, vsvars,
                   tsdlvars, snapvars>>

\* ----------------------------------------------------------- relay streams
\* stream_create(): the new stream takes over the caller's reference on the
\* trace and is linked in trace->stream_list.
StreamCreate(th, st) ==
    /\ Running
    /\ pc[th] = "idle"
    /\ loc[th].trace # 0
    /\ stream[st].state = "none"
    /\ LET t == loc[th].trace
       IN /\ stream' = [stream EXCEPT ![st] = [state |-> "ready", trace |-> t]]
          /\ trace' = [trace EXCEPT ![t].stream_list = Append(@, st)]
    /\ loc' = [loc EXCEPT ![th] = NoLocals]
    /\ UNCHANGED <<last_relay_ctf_trace_id, nalloc, ctf_traces_ht, session_ref,
                   session_owner, rcu_reader, rcu_wait, pc, aborted, tsc_calls, vmsvars, vsvars,
                   tsdlvars, snapvars>>

\* try_stream_close(): a ready stream starts closing; a closing one is left.
try_stream_close(strm, st) ==
    IF strm[st].state = "ready" THEN [strm EXCEPT ![st].state = "closing"]
    ELSE strm

\* The control side closes one stream.
ControlStreamClose(st) ==
    /\ Running
    /\ stream[st].state = "ready"
    /\ stream' = try_stream_close(stream, st)
    /\ UNCHANGED <<last_relay_ctf_trace_id, nalloc, trace, ctf_traces_ht,
                   session_ref, session_owner, rcu_reader, rcu_wait, pc, loc,
                   aborted, tsc_calls, vmsvars, vsvars,
                   tsdlvars, snapvars>>

SeqRemove(q, x) == SelectSeq(q, LAMBDA y : y # x)

Range(q) == {q[i] : i \in DOMAIN q}

\* stream release: a closing stream is unlinked from its trace's stream list
\* and puts its reference on the trace (ctf_trace_put).
StreamDestroy(th, st) ==
    /\ Running
    /\ pc[th] = "idle"
    /\ loc[th].trace = 0
    /\ stream[st].state = "closing"
    /\ LET t == stream[st].trace
       IN /\ stream' = [stream EXCEPT ![st] = [state |-> "none", trace |-> 0]]
          /\ trace' = [trace EXCEPT ![t].ref = @ - 1,
                                    ![t].stream_list = SeqRemove(@, st),
                                    ![t].zero_readers =
                                        IF trace[t].ref = 1 THEN Readers(th)
                                        ELSE @]
          /\ IF trace[t].ref = 1
             THEN /\ pc' = [pc EXCEPT ![th] = "release"]
                  /\ loc' = [loc EXCEPT ![th] = [NoLocals EXCEPT !.node = t]]
                  /\ rcu_reader' = [rcu_reader EXCEPT ![th] = TRUE]
             ELSE UNCHANGED <<pc, loc, rcu_reader>>
    /\ UNCHANGED <<last_relay_ctf_trace_id, nalloc, ctf_traces_ht, session_ref,
                   session_owner, rcu_wait, aborted, tsc_calls, vmsvars, vsvars,
                   tsdlvars, snapvars>>

\* Mutation: the loop stops after the first stream of the list.
Mut_CloseLoop_FirstOnly(list, strm, calls) ==
    IF list = <<>> THEN [stream |-> strm, calls |-> calls]
    ELSE [stream |-> try_stream_close(strm, Head(list)),
          calls |-> Append(calls, Head(list))]

\* ctf_trace_close(): the loop over trace->stream_list, in list order; the
\* result carries the streams after the calls and the calls made.
RECURSIVE CloseLoop(_, _, _)
CloseLoop(list, strm, calls) ==
    IF list = <<>> THEN [stream |-> strm, calls |-> calls]
    ELSE CloseLoop(Tail(list), try_stream_close(strm, Head(list)),
                   Append(calls, Head(list)))

\* ctf_trace_close(trace) by a holder of a reference on the trace.
ctf_trace_close(th) ==
    /\ Running
    /\ pc[th] = "idle"
    /\ loc[th].trace # 0
    /\ LET t == loc[th].trace
           r == CloseLoop(trace[t].stream_list, stream, <<>>)
       IN /\ stream' = r.stream
          /\ tsc_calls' = [trace |-> t, calls |-> r.calls, ret |-> 0]
    /\ UNCHANGED <<last_relay_ctf_trace_id, nalloc, trace, ctf_traces_ht,
                   session_ref, session_owner, rcu_reader, rcu_wait, pc, loc,
                   aborted, vmsvars, vsvars,
                   tsdlvars, snapvars>>

\* ------------------------------------------------ viewer metadata stream
\* everything but the viewer stream counts, the per-thread state and the
\* trace fields
vmsframe == <<last_relay_ctf_trace_id, nalloc, ctf_traces_ht, session_ref,
              session_owner, stream, rcu_wait, aborted, tsc_calls, vsvars,
              tsdlvars, snapvars>>

\* The viewer metadata stream of a live trace is created and published in
\* trace->viewer_metadata_stream, holding its two references (the viewer
\* stream table's and the viewer session's).
VstreamPublish(t) ==
    /\ Running
    /\ trace[t].mem = "alloc"
    /\ trace[t].ref > 0
    /\ InTable(t)
    /\ trace[t].viewer_metadata_stream = 0
    /\ vstream[t].ref = 0
    /\ trace' = [trace EXCEPT ![t].viewer_metadata_stream = t]
    /\ vstream' = [vstream EXCEPT ![t] = [ref |-> 2, owned |-> 2]]
    /\ UNCHANGED <<vmsframe, vheld, rcu_reader, pc, loc>>

\* viewer_stream_put() of one of the two owning references.
VstreamOwnerPut(t) ==
    /\ Running
    /\ vstream[t].owned > 0
    /\ vstream' = [vstream EXCEPT ![t] = [ref |-> @.ref - 1,
                                          owned |-> @.owned - 1]]
    /\ UNCHANGED <<vmsframe, vheld, trace, rcu_reader, pc, loc>>

\* viewer stream release: at count zero the metadata viewer stream is
\* unpublished from its trace.
VstreamRelease(t) ==
    /\ Running
    /\ vstream[t].ref = 0
    /\ trace[t].viewer_metadata_stream # 0
    /\ trace' = [trace EXCEPT ![t].viewer_metadata_stream = 0]
    /\ UNCHANGED <<vmsframe, vmsvars, rcu_reader, pc, loc>>

\* viewer_stream_get(): the count after the call (increment unless zero).
viewer_stream_get(ref) == IF ref > 0 THEN ref + 1 ELSE ref

\* ctf_trace_get_viewer_metadata_stream(trace): rcu_read_lock() and
\* rcu_dereference(trace->viewer_metadata_stream); NULL is returned at once.
GvmsDeref(th) ==
    /\ Running
    /\ pc[th] = "idle"
    /\ loc[th].trace # 0
    /\ vheld[th] = 0
    /\ LET v == trace[loc[th].trace].viewer_metadata_stream
       IN /\ loc' = [loc EXCEPT ![th].vnode = v]
          /\ pc' = [pc EXCEPT ![th] = IF v = 0 THEN "idle" ELSE "gvms_get"]
          /\ rcu_reader' = [rcu_reader EXCEPT ![th] = (v # 0)]
    /\ UNCHANGED <<vmsframe, vmsvars, trace>>

\* Mutation: the stream is returned although viewer_stream_get failed.
Mut_GvmsGet_KeepPointer(th) ==
    /\ Running
    /\ pc[th] = "gvms_get"
    /\ LET v == loc[th].vnode
       IN /\ vstream' = [vstream EXCEPT ![v].ref = viewer_stream_get(@)]
          /\ vheld' = [vheld EXCEPT ![th] = v]
    /\ pc' = [pc EXCEPT ![th] = "idle"]
    /\ rcu_reader' = [rcu_reader EXCEPT ![th] = FALSE]
    /\ UNCHANGED <<vmsframe, trace, loc>>

\* ctf_trace_get_viewer_metadata_stream(trace): viewer_stream_get() on the
\* stream read, rcu_read_unlock(), return the stream or NULL.
GvmsGet(th) ==
    /\ Running
    /\ pc[th] = "gvms_get"
    /\ LET v == loc[th].vnode
       IN /\ vstream' = [vstream EXCEPT ![v].ref = viewer_stream_get(@)]
          /\ vheld' = [vheld EXCEPT ![th] =
                                    IF vstream[v].ref > 0 THEN v ELSE 0]
    /\ pc' = [pc EXCEPT ![th] = "idle"]
    /\ rcu_reader' = [rcu_reader EXCEPT ![th] = FALSE]
    /\ UNCHANGED <<vmsframe, trace, loc>>

\* The caller puts the viewer stream reference it was returned.
VstreamPut(th) ==
    /\ Running
    /\ pc[th] = "idle"
    /\ vheld[th] # 0
    /\ vstream' = [vstream EXCEPT ![vheld[th]].ref = @ - 1]
    /\ vheld' = [vheld EXCEPT ![th] = 0]
    /\ loc' = [loc EXCEPT ![th].vnode = 0]
    /\ UNCHANGED <<vmsframe, trace, rcu_reader, pc>>

\* ---------------------------------------------------------- viewer session
\* everything the viewer session calls leave alone
vsframe == <<last_relay_ctf_trace_id, nalloc, trace, ctf_traces_ht,
             session_owner, stream, rcu_reader, rcu_wait, pc, loc, tsc_calls,
             vmsvars, current_trace_chunk, tsdlvars, snapvars>>

\* The session's node is linked in some viewer session's session_list.
Linked(s) == \E v \in VSessions : s \in Range(session_list[v])

\* A viewer stream is created for a relay stream of session s and published
\* in the global table, holding its two references (the table's and the
\* viewer session's).
ViewerStreamCreate(v, s) ==
    /\ Running
    /\ session_ref[s] > 0
    /\ viewer_streams_ht[v].session = NULL
    /\ viewer_streams_ht' = [viewer_streams_ht EXCEPT
                                ![v] = [ref |-> 2, session |-> s]]
    /\ UNCHANGED <<vsframe, session_ref, aborted, viewer_attached,
                   session_list, vs_chunk, vs_ret, detached, attach_ok>>

\* viewer_stream_put(): the count is lowered; at zero the viewer stream is
\* unpublished from the table and torn down.
viewer_stream_put(vstrm) ==
    IF vstrm.ref = 1 THEN [ref |-> 0, session |-> NULL]
    ELSE [vstrm EXCEPT !.ref = @ - 1]

\* One of the owners of a viewer stream puts its reference.
ViewerStreamPut(v) ==
    /\ Running
    /\ viewer_streams_ht[v].ref > 0
    /\ viewer_streams_ht' = [viewer_streams_ht EXCEPT
                                ![v] = viewer_stream_put(@)]
    /\ UNCHANGED <<vsframe, session_ref, aborted, viewer_attached,
                   session_list, vs_chunk, vs_ret, detached, attach_ok>>

\* viewer_session_set_trace_chunk_copy(): the viewer session's chunk is put
\* and cleared; a session chunk, if any, is copied, which may fail.
viewer_session_set_trace_chunk_copy(chunk, copy_ok) ==
    IF chunk = NULL THEN [ret |-> 0, chunk |-> NULL]
    ELSE IF copy_ok THEN [ret |-> 0, chunk |-> chunk]
    ELSE [ret |-> -1, chunk |-> NULL]

\* Mutation: session->viewer_attached is not set by a successful attach.
Mut_attach_FlagNotSet(vs, s, copy_ok) ==
    /\ Running
    /\ LET r == viewer_session_set_trace_chunk_copy(current_trace_chunk[s],
                                                    copy_ok)
           code == IF session_ref[s] = 0 THEN "UNK"
                   ELSE IF viewer_attached[s] THEN "ALREADY"
                   ELSE IF r.ret # 0 THEN "UNK" ELSE "OK"
       IN /\ vs_ret' = [op |-> "attach", vsession |-> vs, session |-> s,
                        code |-> code]
          /\ vs_chunk' = IF session_ref[s] = 0 \/ viewer_attached[s]
                         THEN vs_chunk
                         ELSE [vs_chunk EXCEPT ![vs] = r.chunk]
          /\ session_list' = IF code = "OK"
                             THEN [session_list EXCEPT ![vs] = <<s>> \o @]
                             ELSE session_list
          /\ session_ref' = IF code = "OK"
                            THEN [session_ref EXCEPT ![s] = @ + 1]
                            ELSE session_ref
          /\ attach_ok' = IF code = "OK" /\ attach_ok[s] < 2
                          THEN [attach_ok EXCEPT ![s] = @ + 1]
                          ELSE attach_ok
    /\ UNCHANGED <<vsframe, aborted, detached, viewer_attached,
                   viewer_streams_ht>>

\* Mutation: the local reference is kept when the attach fails.
Mut_attach_NoPutOnFailure(vs, s, copy_ok) ==
    /\ Running
    /\ LET r == viewer_session_set_trace_chunk_copy(current_trace_chunk[s],
                                                    copy_ok)
           code == IF session_ref[s] = 0 THEN "UNK"
                   ELSE IF viewer_attached[s] THEN "ALREADY"
                   ELSE IF r.ret # 0 THEN "UNK" ELSE "OK"
       IN /\ vs_ret' = [op |-> "attach", vsession |-> vs, session |-> s,
                        code |-> code]
          /\ viewer_attached' =
                IF session_ref[s] = 0 THEN viewer_attached
                ELSE [viewer_attached EXCEPT ![s] = TRUE]
          /\ vs_chunk' = IF session_ref[s] = 0 \/ viewer_attached[s]
                         THEN vs_chunk
                         ELSE [vs_chunk EXCEPT ![vs] = r.chunk]
          /\ session_list' = IF code = "OK"
                             THEN [session_list EXCEPT ![vs] = <<s>> \o @]
                             ELSE session_list
          /\ session_ref' = IF session_ref[s] > 0 /\ session_ref[s] < 3
                            THEN [session_ref EXCEPT ![s] = @ + 1]
                            ELSE session_ref
          /\ attach_ok' = IF code = "OK" /\ attach_ok[s] < 2
                          THEN [attach_ok EXCEPT ![s] = @ + 1]
                          ELSE attach_ok
    /\ UNCHANGED <<vsframe, aborted, detached, viewer_streams_ht>>

\* viewer_session_attach(vsession, session), called with session->lock held.
\* copy_ok: lttng_trace_chunk_copy succeeds.
viewer_session_attach(vs, s, copy_ok) ==
    /\ Running
    /\ LET r == viewer_session_set_trace_chunk_copy(current_trace_chunk[s],
                                                    copy_ok)
           code == IF session_ref[s] = 0 THEN "UNK"
                   ELSE IF viewer_attached[s] THEN "ALREADY"
                   ELSE IF r.ret # 0 THEN "UNK" ELSE "OK"
       IN /\ vs_ret' = [op |-> "attach", vsession |-> vs, session |-> s,
                        code |-> code]
          /\ viewer_attached' =
                IF session_ref[s] = 0 THEN viewer_attached
                ELSE [viewer_attached EXCEPT ![s] = TRUE]
          /\ vs_chunk' = IF session_ref[s] = 0 \/ viewer_attached[s]
                         THEN vs_chunk
                         ELSE [vs_chunk EXCEPT ![vs] = r.chunk]
          \* ownership of the reference taken goes to the list, or the
          \* local reference is put
          /\ session_list' = IF code = "OK"
                             THEN [session_list EXCEPT ![vs] = <<s>> \o @]
                             ELSE session_list
          /\ session_ref' = IF code = "OK"
                            THEN [session_ref EXCEPT ![s] = @ + 1]
                            ELSE session_ref
          /\ attach_ok' = IF code = "OK" /\ attach_ok[s] < 2
                          THEN [attach_ok EXCEPT ![s] = @ + 1]
                          ELSE attach_ok
    /\ UNCHANGED <<vsframe, aborted, detached, viewer_streams_ht>>

\* The state the viewer session functions work on.
VsState ==
    [viewer_attached |-> viewer_attached, session_list |-> session_list,
     session_ref |-> session_ref, vs_chunk |-> vs_chunk,
     viewer_streams_ht |-> viewer_streams_ht, aborted |-> aborted,
     detached |-> detached, attach_ok |-> attach_ok, ret |-> "none"]

\* Mutation: detach clears the flag and puts the reference but leaves the
\* node in the list.
Mut_detach_NoUnlink(st, s, fault) ==
    IF ~st.viewer_attached[s] THEN [st EXCEPT !.ret = "-1"]
    ELSE [st EXCEPT !.viewer_attached[s] = FALSE,
                    !.session_ref[s] = IF @ > 0 THEN @ - 1 ELSE @,
                    !.attach_ok[s] = 0,
                    !.ret = "0"]

\* Mutation: a detach that finds the flag false still puts a reference and
\* reports success.
Mut_detach_PutWhenNotAttached(st, s, fault) ==
    [st EXCEPT !.viewer_attached[s] = FALSE,
               !.session_list = [v \in VSessions |-> SeqRemove(@[v], s)],
               !.session_ref[s] = IF @ > 0 THEN @ - 1 ELSE @,
               !.ret = "0"]

\* viewer_session_detach(vsession, session): under session->lock the flag is
\* cleared, the session's node is unlinked from the list it is in and the
\* list's reference is put; ret is the value returned ("none": the process
\* ended inside the call). Unlinking a node that is in no list is undefined:
\* a node that was never linked holds null pointers and the process faults
\* (fault is then ignored); a node that was unlinked before holds stale
\* pointers and the process faults or goes on with the lists as they are.
viewer_session_detach(st, s, fault) ==
    IF ~st.viewer_attached[s] THEN [st EXCEPT !.ret = "-1"]
    ELSE LET linked == \E v \in VSessions : s \in Range(st.session_list[v])
         IN IF ~linked /\ (fault \/ ~st.detached[s])
            THEN [st EXCEPT !.viewer_attached[s] = FALSE,
                            !.aborted = "fault"]
            ELSE IF st.session_ref[s] = 0
            THEN \* session_put(): the count is already zero
                 [st EXCEPT !.viewer_attached[s] = FALSE,
                            !.session_list = [v \in VSessions |->
                                                 SeqRemove(@[v], s)],
                            !.aborted = "assert"]
            ELSE [st EXCEPT !.viewer_attached[s] = FALSE,
                            !.session_list = [v \in VSessions |->
                                                 SeqRemove(@[v], s)],
                            !.session_ref[s] = @ - 1,
                            !.detached[s] = linked \/ @,
                            !.attach_ok[s] = 0,
                            !.ret = "0"]

\* The loop of viewer_session_close_one_session on one viewer stream of the
\* table: viewer_stream_get (a stream whose count is zero is skipped), a put
\* of that local reference, and for a stream of the session one more put.
close_one_session_vstream(vstrm, s) ==
    IF viewer_stream_get(vstrm.ref) = vstrm.ref THEN vstrm
    ELSE LET got == [vstrm EXCEPT !.ref = viewer_stream_get(@)]
         IN IF got.session # s THEN viewer_stream_put(got)
            ELSE viewer_stream_put(viewer_stream_put(got))

\* viewer_session_close_one_session(vsession, session): the loop over the
\* viewer stream table, the put of the viewer session's chunk, the detach.
viewer_session_close_one_session(st, vs, s, fault) ==
    viewer_session_detach(
        [st EXCEPT !.viewer_streams_ht =
                       [v \in VStreamObj |-> close_one_session_vstream(@[v], s)],
                   !.vs_chunk[vs] = NULL],
        s, fault)

\* viewer_session_close(vsession): viewer_session_close_one_session on each
\* session of the list, from its head.
RECURSIVE viewer_session_close(_, _, _)
viewer_session_close(st, vs, list) ==
    IF list = <<>> \/ st.aborted # "no" THEN st
    ELSE viewer_session_close(
             viewer_session_close_one_session(st, vs, Head(list), FALSE),
             vs, Tail(list))

\* The state after a viewer session call is st; the call is recorded if it
\* returned.
VsCallDone(st, op, vs, s, code) ==
    /\ viewer_attached' = st.viewer_attached
    /\ session_list' = st.session_list
    /\ session_ref' = st.session_ref
    /\ vs_chunk' = st.vs_chunk
    /\ viewer_streams_ht' = st.viewer_streams_ht
    /\ aborted' = st.aborted
    /\ detached' = st.detached
    /\ attach_ok' = st.attach_ok
    /\ vs_ret' = IF st.aborted # "no" THEN vs_ret
                 ELSE [op |-> op, vsession |-> vs, session |-> s,
                       code |-> code]
    /\ UNCHANGED vsframe

\* A call of viewer_session_close_one_session(vsession, session) on a
\* session that exists; the code recorded is the one its detach returned.
CloseOneSession(vs, s) ==
    /\ Running
    /\ session_ref[s] > 0
    /\ \E fault \in BOOLEAN :
          LET st == viewer_session_close_one_session(VsState, vs, s, fault)
          IN VsCallDone(st, "close_one_session", vs, s, st.ret)

\* A call of viewer_session_close(vsession).
ViewerSessionClose(vs) ==
    /\ Running
    /\ VsCallDone(viewer_session_close(VsState, vs, session_list[vs]),
                  "close", vs, NULL, "void")

\* ------------------------------------------------- viewer session locking
\* The viewer session calls as the steps of a thread, with session->lock,
\* vsession->session_list_lock and the read-side critical sections.

\* The state after a step inside a viewer session call is st.
LkCallStep(st) ==
    /\ viewer_attached' = st.viewer_attached
    /\ session_list' = st.session_list
    /\ session_ref' = st.session_ref
    /\ vs_chunk' = st.vs_chunk
    /\ viewer_streams_ht' = st.viewer_streams_ht
    /\ aborted' = st.aborted
    /\ detached' = st.detached
    /\ attach_ok' = st.attach_ok
    /\ UNCHANGED <<vsframe, vs_ret>>

\* everything a step that only takes or releases a lock leaves alone
vsdata == <<vsframe, session_ref, aborted, viewer_attached, session_list,
            vs_chunk, vs_ret, detached, viewer_streams_ht, attach_ok>>

\* The caller of viewer_session_attach locks session->lock
\* (ASSERT_LOCKED(session->lock)) and calls it.
LkAttachEnter(t, vs, s) ==
    /\ Running
    /\ vcall[t].pc = "idle"
    /\ session_lock[s] = NULL
    /\ session_lock' = [session_lock EXCEPT ![s] = t]
    /\ vcall' = [vcall EXCEPT ![t] = [NoCall EXCEPT !.fn = "attach",
                                                    !.pc = "attach",
                                                    !.vsession = vs,
                                                    !.session = s]]
    /\ UNCHANGED <<vsdata, session_list_lock, rcu_nesting>>

\* viewer_session_attach up to the test of the status: a status other than
\* Ok puts the local reference and the function returns.
LkAttachStatus(t, copy_ok) ==
    /\ Running
    /\ vcall[t].pc = "attach"
    /\ LET vs == vcall[t].vsession
           s == vcall[t].session
           ok == /\ session_ref[s] > 0
                 /\ ~viewer_attached[s]
                 /\ viewer_session_set_trace_chunk_copy(
                        current_trace_chunk[s], copy_ok).ret = 0
       IN IF ok
          THEN /\ vcall' = [vcall EXCEPT ![t].pc = "attach_list_lock",
                                         ![t].copy_ok = copy_ok]
               /\ UNCHANGED vsdata
          ELSE /\ viewer_session_attach(vs, s, copy_ok)
               /\ vcall' = [vcall EXCEPT ![t].pc = "attach_return"]
    /\ UNCHANGED <<session_lock, session_list_lock, rcu_nesting>>

\* pthread_mutex_lock(&vsession->session_list_lock) of viewer_session_attach
LkAttachListLock(t) ==
    /\ Running
    /\ vcall[t].pc = "attach_list_lock"
    /\ session_list_lock[vcall[t].vsession] = NULL
    /\ session_list_lock' = [session_list_lock EXCEPT
                                ![vcall[t].vsession] = t]
    /\ vcall' = [vcall EXCEPT ![t].pc = "attach_add"]
    /\ UNCHANGED <<vsdata, session_lock, rcu_nesting>>

\* cds_list_add_rcu and the unlock of the list lock
LkAttachAdd(t) ==
    /\ Running
    /\ vcall[t].pc = "attach_add"
    /\ viewer_session_attach(vcall[t].vsession, vcall[t].session,
                             vcall[t].copy_ok)
    /\ session_list_lock' = [session_list_lock EXCEPT
                                ![vcall[t].vsession] = NULL]
    /\ vcall' = [vcall EXCEPT ![t].pc = "attach_return"]
    /\ UNCHANGED <<session_lock, rcu_nesting>>

\* viewer_session_attach has returned; its caller unlocks session->lock.
LkAttachReturn(t) ==
    /\ Running
    /\ vcall[t].pc = "attach_return"
    /\ session_lock' = [session_lock EXCEPT ![vcall[t].session] = NULL]
    /\ vcall' = [vcall EXCEPT ![t] = NoCall]
    /\ UNCHANGED <<vsdata, session_list_lock, rcu_nesting>>

\* viewer_session_close(vsession): rcu_read_lock(), then the sessions of the
\* list one after the other.
LkCloseEnter(t, vs) ==
    /\ Running
    /\ vcall[t].pc = "idle"
    /\ rcu_nesting' = [rcu_nesting EXCEPT ![t] = @ + 1]
    /\ vcall' = [vcall EXCEPT ![t] =
                    [NoCall EXCEPT
                        !.fn = "close",
                        !.pc = IF session_list[vs] = <<>> THEN "rcu_unlock"
                               ELSE "traverse",
                        !.vsession = vs,
                        !.session = IF session_list[vs] = <<>> THEN NULL
                                    ELSE Head(session_list[vs]),
                        !.todo = session_list[vs]]]
    /\ UNCHANGED <<vsdata, session_lock, session_list_lock>>

\* viewer_session_close_one_session(vsession, session) called directly, by a
\* caller that is inside nesting read-side critical sections.
LkCloseOneEnter(t, vs, s, nesting) ==
    /\ Running
    /\ vcall[t].pc = "idle"
    /\ session_ref[s] > 0
    /\ rcu_nesting' = [rcu_nesting EXCEPT ![t] = nesting]
    /\ vcall' = [vcall EXCEPT ![t] = [NoCall EXCEPT
                                         !.fn = "close_one_session",
                                         !.pc = "traverse",
                                         !.vsession = vs,
                                         !.session = s,
                                         !.todo = <<s>>]]
    /\ UNCHANGED <<vsdata, session_lock, session_list_lock>>

\* viewer_session_close_one_session: cds_lfht_for_each_entry over
\* viewer_streams_ht with viewer_stream_get on each entry, then the put of
\* the viewer session's chunk.
LkTraverse(t) ==
    /\ Running
    /\ vcall[t].pc = "traverse"
    /\ viewer_streams_ht' =
          [v \in VStreamObj |->
              close_one_session_vstream(viewer_streams_ht[v],
                                        vcall[t].session)]
    /\ vs_chunk' = [vs_chunk EXCEPT ![vcall[t].vsession] = NULL]
    /\ vcall' = [vcall EXCEPT ![t].pc = "detach"]
    /\ UNCHANGED <<vsframe, session_ref, aborted, viewer_attached,
                   session_list, vs_ret, detached, attach_ok, session_lock,
                   session_list_lock, rcu_nesting>>

\* pthread_mutex_lock(&session->lock) of viewer_session_detach
LkDetachLock(t) ==
    /\ Running
    /\ vcall[t].pc = "detach"
    /\ session_lock[vcall[t].session] = NULL
    /\ session_lock' = [session_lock EXCEPT ![vcall[t].session] = t]
    /\ vcall' = [vcall EXCEPT ![t].pc = "detach_flag"]
    /\ UNCHANGED <<vsdata, session_list_lock, rcu_nesting>>

\* Mutation: a detach that finds the flag false returns without unlocking
\* session->lock.
Mut_LkDetachFlag_NoUnlock(t) ==
    /\ Running
    /\ vcall[t].pc = "detach_flag"
    /\ IF ~viewer_attached[vcall[t].session]
       THEN LET st == viewer_session_detach(VsState, vcall[t].session, FALSE)
            IN /\ LkCallStep(st)
               /\ vcall' = [vcall EXCEPT ![t] = NoCall]
       ELSE /\ viewer_attached' = [viewer_attached EXCEPT
                                       ![vcall[t].session] = FALSE]
            /\ vcall' = [vcall EXCEPT ![t].pc = "detach_list_lock"]
            /\ UNCHANGED <<vsframe, session_ref, aborted, session_list,
                           vs_chunk, vs_ret, detached, viewer_streams_ht,
                           attach_ok>>
    /\ UNCHANGED <<session_lock, session_list_lock, rcu_nesting>>

\* viewer_session_detach: the test of session->viewer_attached; when it is
\* false the function goes to the unlock with ret = -1.
LkDetachFlag(t) ==
    /\ Running
    /\ vcall[t].pc = "detach_flag"
    /\ IF ~viewer_attached[vcall[t].session]
       THEN LET st == viewer_session_detach(VsState, vcall[t].session, FALSE)
            IN /\ LkCallStep(st)
               /\ vcall' = [vcall EXCEPT ![t].pc = "detach_unlock",
                                         ![t].ret = st.ret]
       ELSE /\ viewer_attached' = [viewer_attached EXCEPT
                                       ![vcall[t].session] = FALSE]
            /\ vcall' = [vcall EXCEPT ![t].pc = "detach_list_lock"]
            /\ UNCHANGED <<vsframe, session_ref, aborted, session_list,
                           vs_chunk, vs_ret, detached, viewer_streams_ht,
                           attach_ok>>
    /\ UNCHANGED <<session_lock, session_list_lock, rcu_nesting>>

\* pthread_mutex_lock(&vsession->session_list_lock) of viewer_session_detach
LkDetachListLock(t) ==
    /\ Running
    /\ vcall[t].pc = "detach_list_lock"
    /\ session_list_lock[vcall[t].vsession] = NULL
    /\ session_list_lock' = [session_list_lock EXCEPT
                                ![vcall[t].vsession] = t]
    /\ vcall' = [vcall EXCEPT ![t].pc = "detach_del"]
    /\ UNCHANGED <<vsdata, session_lock, rcu_nesting>>

\* cds_list_del_rcu, the unlock of the list lock and session_put: what
\* viewer_session_detach does once it has found the flag set
LkDetachDel(t, fault) ==
    /\ Running
    /\ vcall[t].pc = "detach_del"
    /\ LET st == viewer_session_detach(
                     [VsState EXCEPT !.viewer_attached[vcall[t].session] =
                                         TRUE],
                     vcall[t].session, fault)
       IN /\ LkCallStep(st)
          /\ vcall' = [vcall EXCEPT ![t].pc = "detach_unlock",
                                    ![t].ret = st.ret]
    /\ session_list_lock' = [session_list_lock EXCEPT
                                ![vcall[t].vsession] = NULL]
    /\ UNCHANGED <<session_lock, rcu_nesting>>

\* pthread_mutex_unlock(&session->lock) of viewer_session_detach and its
\* return; viewer_session_close goes on with the next session of the list.
LkDetachUnlock(t) ==
    /\ Running
    /\ vcall[t].pc = "detach_unlock"
    /\ session_lock' = [session_lock EXCEPT ![vcall[t].session] = NULL]
    /\ LET todo == Tail(vcall[t].todo)
       IN IF todo # <<>>
          THEN /\ vcall' = [vcall EXCEPT ![t].pc = "traverse",
                                         ![t].session = Head(todo),
                                         ![t].todo = todo]
               /\ UNCHANGED rcu_nesting
          ELSE IF vcall[t].fn = "close"
          THEN /\ vcall' = [vcall EXCEPT ![t].pc = "rcu_unlock",
                                         ![t].todo = todo]
               /\ UNCHANGED rcu_nesting
          ELSE /\ vcall' = [vcall EXCEPT ![t] = NoCall]
               /\ rcu_nesting' = [rcu_nesting EXCEPT ![t] = 0]
    /\ UNCHANGED <<vsdata, session_list_lock>>

\* rcu_read_unlock() of viewer_session_close and its return
LkRcuUnlock(t) ==
    /\ Running
    /\ vcall[t].pc = "rcu_unlock"
    /\ rcu_nesting' = [rcu_nesting EXCEPT ![t] = @ - 1]
    /\ vcall' = [vcall EXCEPT ![t] = NoCall]
    /\ UNCHANGED <<vsdata, session_lock, session_list_lock>>

\* pthread_mutex_lock(&session->lock) of viewer_session_is_attached
LkIsAttachedLock(t, vs, s) ==
    /\ Running
    /\ vcall[t].pc = "idle"
    /\ session_lock[s] = NULL
    /\ session_lock' = [session_lock EXCEPT ![s] = t]
    /\ vcall' = [vcall EXCEPT ![t] = [NoCall EXCEPT !.fn = "is_attached",
                                                    !.pc = "is_attached",
                                                    !.vsession = vs,
                                                    !.session = s]]
    /\ UNCHANGED <<vsdata, session_list_lock, rcu_nesting>>

\* viewer_session_is_attached: 0 without a viewer session or when the flag
\* is false, else the search of the list inside rcu_read_lock()
viewer_session_is_attached(vs, s) ==
    IF vs = NULL THEN "0"
    ELSE IF ~viewer_attached[s] THEN "0"
    ELSE IF s \in Range(session_list[vs]) THEN "1" ELSE "0"

\* the body of viewer_session_is_attached, up to the label end
LkIsAttachedBody(t) ==
    /\ Running
    /\ vcall[t].pc = "is_attached"
    /\ vcall' = [vcall EXCEPT
                    ![t].pc = "is_attached_unlock",
                    ![t].ret = viewer_session_is_attached(vcall[t].vsession,
                                                          vcall[t].session)]
    /\ UNCHANGED <<vsdata, session_lock, session_list_lock, rcu_nesting>>

\* pthread_mutex_unlock(&session->lock) of viewer_session_is_attached
LkIsAttachedUnlock(t) ==
    /\ Running
    /\ vcall[t].pc = "is_attached_unlock"
    /\ session_lock' = [session_lock EXCEPT ![vcall[t].session] = NULL]
    /\ vcall' = [vcall EXCEPT ![t] = NoCall]
    /\ UNCHANGED <<vsdata, session_list_lock, rcu_nesting>>

\* the viewer session the concurrent calls are made on
LkVSessions == {"v1"}

\* One step of viewer thread t.
LkStep(t) ==
    \/ \E vs \in LkVSessions, s \in Sessions : LkAttachEnter(t, vs, s)
    \/ \E copy_ok \in BOOLEAN : LkAttachStatus(t, copy_ok)
    \/ LkAttachListLock(t)
    \/ LkAttachAdd(t)
    \/ LkAttachReturn(t)
    \/ \E vs \in LkVSessions : LkCloseEnter(t, vs)
    \/ \E vs \in LkVSessions, s \in Sessions, nesting \in {0, 1} :
          LkCloseOneEnter(t, vs, s, nesting)
    \/ LkTraverse(t)
    \/ LkDetachLock(t)
    \/ LkDetachFlag(t)
    \/ LkDetachListLock(t)
    \/ \E fault \in BOOLEAN : LkDetachDel(t, fault)
    \/ LkDetachUnlock(t)
    \/ LkRcuUnlock(t)
    \/ \E vs \in LkVSessions \cup {NULL}, s \in Sessions :
          LkIsAttachedLock(t, vs, s)
    \/ LkIsAttachedBody(t)
    \/ LkIsAttachedUnlock(t)

\* ------------------------------------------------------------ TSDL emitter
\* A string whose characters the code looks at is a sequence of characters;
\* the emitted description is a string.
Digit == {"0", "1", "2", "3", "4", "5", "6", "7", "8", "9"}
Lower == {"a", "b", "c", "d", "e", "f", "g", "h", "i", "j", "k", "l", "m",
          "n", "o", "p", "q", "r", "s", "t", "u", "v", "w", "x", "y", "z"}
Upper == {"A", "B", "C", "D", "E", "F", "G", "H", "I", "J", "K", "L", "M",
          "N", "O", "P", "Q", "R", "S", "T", "U", "V", "W", "X", "Y", "Z"}

\* std::isalnum(c, std::locale{"C"})
isalnum(c) == c \in Digit \cup Lower \cup Upper

\* The std::string made of the characters of chars.
RECURSIVE Str(_)
Str(chars) == IF chars = <<>> THEN "" ELSE Head(chars) \o Str(Tail(chars))

safe_tsdl_identifiers ==
    {<<"s", "t", "r", "e", "a", "m", "_", "i", "d">>,
     <<"p", "a", "c", "k", "e", "t", "_", "s", "i", "z", "e">>,
     <<"c", "o", "n", "t", "e", "n", "t", "_", "s", "i", "z", "e">>,
     <<"i", "d">>,
     <<"v">>,
     <<"t", "i", "m", "e", "s", "t", "a", "m", "p">>,
     <<"e", "v", "e", "n", "t", "s", "_", "d", "i", "s", "c", "a", "r", "d", "e", "d">>,
     <<"p", "a", "c", "k", "e", "t", "_", "s", "e", "q", "_", "n", "u", "m">>,
     <<"t", "i", "m", "e", "s", "t", "a", "m", "p", "_", "b", "e", "g", "i", "n">>,
     <<"t", "i", "m", "e", "s", "t", "a", "m", "p", "_", "e", "n", "d">>,
     <<"c", "p", "u", "_", "i", "d">>,
     <<"m", "a", "g", "i", "c">>,
     <<"u", "u", "i", "d">>,
     <<"s", "t", "r", "e", "a", "m", "_", "i", "n", "s", "t", "a", "n", "c", "e", "_", "i", "d">>}

\* Mutation: the identifier is not prefixed with an underscore.
Mut_escape_NoPrefix(original_identifier) ==
    IF Len(original_identifier) = 0
    THEN [status |-> "throw", value |-> <<>>]
    ELSE IF original_identifier \in safe_tsdl_identifiers
    THEN [status |-> "ok", value |-> original_identifier]
    ELSE [status |-> "ok",
          value |-> [i \in 1..Len(original_identifier) |->
                        IF ~isalnum(original_identifier[i])
                              /\ original_identifier[i] # "_"
                        THEN "_" ELSE original_identifier[i]]]

\* escape_tsdl_identifier(): throws on an empty identifier, returns a safe
\* identifier as it is, otherwise "_" followed by the identifier with every
\* illegal character replaced by '_'.
escape_tsdl_identifier(original_identifier) ==
    IF Len(original_identifier) = 0
    THEN [status |-> "throw", value |-> <<>>]
    ELSE IF original_identifier \in safe_tsdl_identifiers
    THEN [status |-> "ok", value |-> original_identifier]
    ELSE [status |-> "ok",
          value |-> <<"_">> \o
                    [i \in 1..Len(original_identifier) |->
                        IF ~isalnum(original_identifier[i])
                              /\ original_identifier[i] # "_"
                        THEN "_" ELSE original_identifier[i]]]

\* the characters the environment string escape looks for
NL == "\n"
BS == "\\"
DQ == "\""

\* escape_tsdl_env_string_value(): the switch on each character; the case of
\* the double quote appends the one-character string "\"".
RECURSIVE escape_tsdl_env_string_value(_)
escape_tsdl_env_string_value(original_string) ==
    IF original_string = <<>> THEN <<>>
    ELSE LET c == Head(original_string)
         IN (CASE c = NL -> <<BS, "n">>
               [] c = BS -> <<BS, BS>>
               [] c = DQ -> <<DQ>>
               [] OTHER -> <<c>>)
            \o escape_tsdl_env_string_value(Tail(original_string))

\* lst::integer_type (constructor arguments in the order of the source)
integer_type(alignment, byte_order, size, signedness, base, roles) ==
    [kind |-> "integer", alignment |-> alignment, byte_order |-> byte_order,
     size |-> size, signedness_ |-> signedness, base_ |-> base,
     roles_ |-> roles]

static_length_array_type(alignment, element_type, length) ==
    [kind |-> "static_length_array", alignment |-> alignment,
     element_type |-> element_type, length |-> length]

dynamic_length_array_type(alignment, element_type, length_field_location) ==
    [kind |-> "dynamic_length_array", alignment |-> alignment,
     element_type |-> element_type,
     length_field_location |-> length_field_location]

\* lst::enumeration_type: an integer type with mappings of names to ranges
enumeration_type(alignment, byte_order, size, signedness, base, roles, mappings) ==
    [kind |-> "enumeration", alignment |-> alignment,
     byte_order |-> byte_order, size |-> size, signedness_ |-> signedness,
     base_ |-> base, roles_ |-> roles, mappings_ |-> mappings]

\* lst::variant_type: choices_ pairs a mapping of the selector with a type
variant_type(alignment, selector_field_location, choices) ==
    [kind |-> "variant", alignment |-> alignment,
     selector_field_location |-> selector_field_location,
     choices_ |-> choices]

\* tsdl_field_visitor(abi, indentation_level, in_default_clock_class_name)
tsdl_field_visitor(abi, indentation_level, in_default_clock_class_name) ==
    [description |-> "", indentation_level |-> indentation_level,
     trace_abi |-> abi, bypass_identifier_escape |-> FALSE,
     default_clock_class_name |-> in_default_clock_class_name,
     current_field_name |-> <<>>, type_suffixes |-> <<>>,
     current_integer_encoding_override |-> NULL,
     status |-> "ok"]

\* _description += text
Emit(v, text) == [v EXCEPT !.description = @ \o text]

\* _description.resize(_description.size() + n, '\t')
RECURSIVE Tabs(_)
Tabs(n) == IF n = 0 THEN "" ELSE "\t" \o Tabs(n - 1)

\* LTTNG_THROW_ERROR: the visit ends with an exception
Throw(v) == [v EXCEPT !.status = "throw"]

\* a failed LTTNG_ASSERT: the process is aborted
Abort(v) == [v EXCEPT !.status = "abort"]

ClockRoles == {"DEFAULT_CLOCK_TIMESTAMP", "PACKET_END_DEFAULT_CLOCK_TIMESTAMP"}

\* Mutation: the base is appended after the byte order.
Mut_visit_integer_type_BaseLast(v, type) ==
    LET v1 == Emit(v, "integer { " \o "size = " \o ToString(type.size)
                      \o "; align = " \o ToString(type.alignment) \o ";")
        v2 == IF type.signedness_ = "SIGNED"
              THEN Emit(v1, " signed = true;") ELSE v1
        v3 == IF type.byte_order # v2.trace_abi.byte_order
              THEN Emit(v2, " byte_order = "
                            \o (IF type.byte_order = "BIG_ENDIAN_"
                                THEN "be" ELSE "le") \o ";")
              ELSE v2
        v4 == IF type.base_ = "DECIMAL" THEN v3
              ELSE Emit(v3, " base = "
                            \o (CASE type.base_ = "BINARY" -> "2"
                                  [] type.base_ = "OCTAL" -> "8"
                                  [] OTHER -> "16") \o ";")
        v5 == IF v4.current_integer_encoding_override = NULL THEN v4
              ELSE [Emit(v4, " encoding = "
                             \o v4.current_integer_encoding_override \o ";")
                       EXCEPT !.current_integer_encoding_override = NULL]
    IN IF type.roles_ \cap ClockRoles # {}
       THEN IF v5.default_clock_class_name = NULL THEN Abort(v5)
            ELSE Emit(Emit(v5, " map = clock." \o v5.default_clock_class_name
                               \o ".value;"), " }")
       ELSE Emit(v5, " }")

\* Mutation: the encoding override is not reset once an integer has used it.
Mut_visit_integer_type_KeepOverride(v, type) ==
    LET v1 == Emit(v, "integer { " \o "size = " \o ToString(type.size)
                      \o "; align = " \o ToString(type.alignment) \o ";")
        v2 == IF type.signedness_ = "SIGNED"
              THEN Emit(v1, " signed = true;") ELSE v1
        v3 == IF type.base_ = "DECIMAL" THEN v2
              ELSE IF type.base_ \in {"BINARY", "OCTAL", "HEXADECIMAL"}
              THEN Emit(v2, " base = "
                            \o (CASE type.base_ = "BINARY" -> "2"
                                  [] type.base_ = "OCTAL" -> "8"
                                  [] OTHER -> "16") \o ";")
              ELSE Throw(v2)
        v4 == IF type.byte_order # v3.trace_abi.byte_order
              THEN Emit(v3, " byte_order = "
                            \o (IF type.byte_order = "BIG_ENDIAN_"
                                THEN "be" ELSE "le") \o ";")
              ELSE v3
        v5 == IF v4.current_integer_encoding_override = NULL THEN v4
              ELSE IF v4.current_integer_encoding_override \in {"ASCII", "UTF8"}
              THEN Emit(v4, " encoding = "
                            \o v4.current_integer_encoding_override \o ";")
              ELSE Throw(v4)
    IN IF v3.status # "ok" THEN v3
       ELSE IF v5.status # "ok" THEN v5
       ELSE IF type.roles_ \cap ClockRoles # {}
       THEN IF v5.default_clock_class_name = NULL THEN Abort(v5)
            ELSE Emit(Emit(v5, " map = clock." \o v5.default_clock_class_name
                               \o ".value;"), " }")
       ELSE Emit(v5, " }")

\* visit(const lst::integer_type&)
visit_integer_type(v, type) ==
    LET v1 == Emit(v, "integer { " \o "size = " \o ToString(type.size)
                      \o "; align = " \o ToString(type.alignment) \o ";")
        v2 == IF type.signedness_ = "SIGNED"
              THEN Emit(v1, " signed = true;") ELSE v1
        v3 == IF type.base_ = "DECIMAL" THEN v2
              ELSE IF type.base_ \in {"BINARY", "OCTAL", "HEXADECIMAL"}
              THEN Emit(v2, " base = "
                            \o (CASE type.base_ = "BINARY" -> "2"
                                  [] type.base_ = "OCTAL" -> "8"
                                  [] OTHER -> "16") \o ";")
              ELSE Throw(v2)
        v4 == IF type.byte_order # v3.trace_abi.byte_order
              THEN Emit(v3, " byte_order = "
                            \o (IF type.byte_order = "BIG_ENDIAN_"
                                THEN "be" ELSE "le") \o ";")
              ELSE v3
        v5 == IF v4.current_integer_encoding_override = NULL THEN v4
              ELSE IF v4.current_integer_encoding_override \in {"ASCII", "UTF8"}
              THEN [Emit(v4, " encoding = "
                             \o v4.current_integer_encoding_override \o ";")
                       EXCEPT !.current_integer_encoding_override = NULL]
              ELSE Throw(v4)
    IN IF v3.status # "ok" THEN v3
       ELSE IF v5.status # "ok" THEN v5
       ELSE IF type.roles_ \cap ClockRoles # {}
       THEN IF v5.default_clock_class_name = NULL THEN Abort(v5)
            ELSE Emit(Emit(v5, " map = clock." \o v5.default_clock_class_name
                               \o ".value;"), " }")
       ELSE Emit(v5, " }")

\* The empty structure that carries the alignment of an array, a sequence or
\* a variant, named after the field being visited.
Padding(v, alignment) ==
    IF alignment = 0 THEN v
    ELSE IF Len(v.current_field_name) = 0 THEN Abort(v)
    ELSE Emit(v, "struct { } align(" \o ToString(alignment) \o ") "
                 \o Head(v.current_field_name) \o "_padding;\n"
                 \o Tabs(v.indentation_level))

\* Mutation: no encoding override is left for the character type.
Mut_create_character_type_NoOverride(v, encoding) ==
    [visitor |-> v,
     type |-> integer_type(8, v.trace_abi.byte_order, 8, "UNSIGNED",
                           "DECIMAL", {})]

\* create_character_type(encoding): the override is set for the next integer
\* and an 8-bit unsigned decimal integer type is returned.
create_character_type(v, encoding) ==
    [visitor |-> [v EXCEPT !.current_integer_encoding_override = encoding],
     type |-> integer_type(8, v.trace_abi.byte_order, 8, "UNSIGNED",
                           "DECIMAL", {})]

RECURSIVE visit_type(_, _)
RECURSIVE visit_field(_, _)
RECURSIVE visit_fields(_, _)

\* visit(const lst::static_length_array_type&)
visit_static_length_array_type(v, type) ==
    LET v1 == Padding(v, type.alignment)
        v2 == IF v1.status # "ok" THEN v1
              ELSE visit_type(v1, type.element_type)
    IN IF v2.status # "ok" THEN v2
       ELSE [v2 EXCEPT !.type_suffixes =
                Append(@, "[" \o ToString(type.length) \o "]")]

\* visit(const lst::dynamic_length_array_type&)
visit_dynamic_length_array_type(v, type) ==
    LET v1 == Padding(v, type.alignment)
        v2 == IF v1.status # "ok" THEN v1
              ELSE visit_type(v1, type.element_type)
        elements_ == type.length_field_location
        last == elements_[Len(elements_)]
        name == IF v2.bypass_identifier_escape
                THEN [status |-> "ok", value |-> last]
                ELSE escape_tsdl_identifier(last)
    IN IF v2.status # "ok" THEN v2
       ELSE IF name.status # "ok" THEN Throw(v2)
       ELSE [v2 EXCEPT !.type_suffixes =
                Append(@, "[" \o Str(name.value) \o "]")]

\* visit(const lst::static_length_blob_type&)
visit_static_length_blob_type(v, type) ==
    visit_static_length_array_type(v,
        static_length_array_type(type.alignment,
            integer_type(8, v.trace_abi.byte_order, 8, "UNSIGNED",
                         "HEXADECIMAL", {}),
            type.length_bytes))

\* visit(const lst::dynamic_length_blob_type&)
visit_dynamic_length_blob_type(v, type) ==
    visit_dynamic_length_array_type(v,
        dynamic_length_array_type(type.alignment,
            integer_type(0, v.trace_abi.byte_order, 8, "UNSIGNED",
                         "HEXADECIMAL", {}),
            type.length_field_location))

\* visit(const lst::null_terminated_string_type&)
visit_null_terminated_string_type(v, type) ==
    IF type.encoding_ = "ASCII" THEN Emit(v, "string { encoding = ASCII }")
    ELSE Emit(v, "string")

\* visit(const lst::static_length_string_type&)
visit_static_length_string_type(v, type) ==
    LET c == create_character_type(v, type.encoding_)
    IN visit_static_length_array_type(c.visitor,
           static_length_array_type(type.alignment, c.type, type.length))

\* visit(const lst::dynamic_length_string_type&)
visit_dynamic_length_string_type(v, type) ==
    LET c == create_character_type(v, type.encoding_)
    IN visit_dynamic_length_array_type(c.visitor,
           dynamic_length_array_type(type.alignment, c.type,
                                     type.length_field_location))

\* visit(const lst::structure_type&)
visit_structure_type(v, type) ==
    LET previous_bypass_identifier_escape == v.bypass_identifier_escape
        v1 == [Emit(v, "struct {") EXCEPT !.indentation_level = @ + 1,
                                          !.bypass_identifier_escape = FALSE]
        v2 == visit_fields(v1, type.fields_)
        v3 == [v2 EXCEPT !.bypass_identifier_escape =
                             previous_bypass_identifier_escape,
                         !.indentation_level = @ - 1]
    IN IF v2.status # "ok" THEN v2
       ELSE Emit(IF Len(type.fields_) # 0
                 THEN Emit(v3, "\n" \o Tabs(v3.indentation_level))
                 ELSE v3,
                 "}")

\* the loop of visit(const lst::structure_type&) over the fields
visit_fields(v, fields) ==
    IF fields = <<>> \/ v.status # "ok" THEN v
    ELSE visit_fields(
             visit_field(Emit(v, "\n" \o Tabs(v.indentation_level)),
                         Head(fields)),
             Tail(fields))

\* visit(const lst::floating_point_type&)
visit_floating_point_type(v, type) ==
    LET v1 == Emit(v, "floating_point { align = " \o ToString(type.alignment)
                      \o "; mant_dig = " \o ToString(type.mantissa_digits)
                      \o "; exp_dig = " \o ToString(type.exponent_digits)
                      \o ";")
        v2 == IF type.byte_order # v1.trace_abi.byte_order
              THEN Emit(v1, " byte_order = "
                            \o (IF type.byte_order = "BIG_ENDIAN_"
                                THEN "be" ELSE "le") \o ";")
              ELSE v1
    IN Emit(v2, " }")

\* the loop of visit_enumeration over the mappings
RECURSIVE visit_mappings(_, _, _)
visit_mappings(mappings, mappings_indentation_level, first_mapping) ==
    IF mappings = <<>> THEN ""
    ELSE LET mapping == Head(mappings)
         IN (IF first_mapping THEN "" ELSE ",\n")
            \o Tabs(mappings_indentation_level)
            \o (IF mapping.begin = mapping.end
                THEN "\"" \o Str(mapping.name) \o "\" = "
                     \o ToString(mapping.begin)
                ELSE "\"" \o Str(mapping.name) \o "\" = "
                     \o ToString(mapping.begin) \o " ... "
                     \o ToString(mapping.end))
            \o visit_mappings(Tail(mappings), mappings_indentation_level,
                              FALSE)

\* visit_enumeration: the enumeration, cast to its integer_type base, accepts
\* a visitor of its own (no clock class name, no encoding override), then the
\* mappings are written.
visit_enumeration(v, type) ==
    LET integer_visitor ==
            visit_type(
                tsdl_field_visitor(v.trace_abi, v.indentation_level, NULL),
                [type EXCEPT !.kind = "integer"])
        v1 == Emit(v, "enum : " \o integer_visitor.description \o " {\n")
        v2 == Emit(v1, visit_mappings(type.mappings_, v.indentation_level + 1,
                                      TRUE))
    IN IF integer_visitor.status # "ok"
       THEN [v EXCEPT !.status = integer_visitor.status]
       ELSE Emit(v2, "\n" \o Tabs(v2.indentation_level) \o "}")

\* the loop of visit_variant over the choices: the type of the choice accepts
\* the visitor, then the name of the choice's mapping is written as it is
RECURSIVE visit_choices(_, _)
visit_choices(v, choices) ==
    IF choices = <<>> \/ v.status # "ok" THEN v
    ELSE LET field == Head(choices)
             v1 == visit_type(Emit(v, Tabs(v.indentation_level)), field.type)
         IN IF v1.status # "ok" THEN v1
            ELSE visit_choices(Emit(v1, " " \o Str(field.name) \o ";\n"),
                               Tail(choices))

\* Mutation: the identifier escape is not bypassed inside the variant.
Mut_visit_variant_NoBypass(v, type) ==
    LET v1 == Padding(v, type.alignment)
        elements_ == type.selector_field_location
        selector == escape_tsdl_identifier(elements_[Len(elements_)])
        v2 == Emit([v1 EXCEPT !.indentation_level = @ + 1],
                   "variant <" \o Str(selector.value) \o "> {\n")
        v3 == visit_choices(
                  v2,
                  [i \in 1..Len(type.choices_) |->
                      [name |-> escape_tsdl_identifier(
                                    type.choices_[i].name).value,
                       type |-> type.choices_[i].type]])
        v4 == [v3 EXCEPT !.indentation_level = @ - 1]
    IN IF v1.status # "ok" THEN v1
       ELSE IF selector.status # "ok" THEN Throw(v1)
       ELSE IF v3.status # "ok" THEN v3
       ELSE Emit(v4, Tabs(v4.indentation_level) \o "}")

\* visit_variant
visit_variant(v, type) ==
    LET v1 == Padding(v, type.alignment)
        elements_ == type.selector_field_location
        last == elements_[Len(elements_)]
        selector == IF v1.bypass_identifier_escape
                    THEN [status |-> "ok", value |-> last]
                    ELSE escape_tsdl_identifier(last)
        v2 == Emit([v1 EXCEPT !.indentation_level = @ + 1],
                   "variant <" \o Str(selector.value) \o "> {\n")
        previous_bypass_identifier_escape == v2.bypass_identifier_escape
        v3 == visit_choices([v2 EXCEPT !.bypass_identifier_escape = TRUE],
                            type.choices_)
        v4 == [v3 EXCEPT !.bypass_identifier_escape =
                             previous_bypass_identifier_escape,
                         !.indentation_level = @ - 1]
    IN IF v1.status # "ok" THEN v1
       ELSE IF selector.status # "ok" THEN Throw(v1)
       ELSE IF v3.status # "ok" THEN v3
       ELSE Emit(v4, Tabs(v4.indentation_level) \o "}")

\* type.accept(visitor): the visit function of the type's class
visit_type(v, type) ==
    CASE type.kind = "integer" -> visit_integer_type(v, type)
      [] type.kind = "static_length_array" ->
            visit_static_length_array_type(v, type)
      [] type.kind = "dynamic_length_array" ->
            visit_dynamic_length_array_type(v, type)
      [] type.kind = "static_length_blob" ->
            visit_static_length_blob_type(v, type)
      [] type.kind = "dynamic_length_blob" ->
            visit_dynamic_length_blob_type(v, type)
      [] type.kind = "null_terminated_string" ->
            visit_null_terminated_string_type(v, type)
      [] type.kind = "static_length_string" ->
            visit_static_length_string_type(v, type)
      [] type.kind = "dynamic_length_string" ->
            visit_dynamic_length_string_type(v, type)
      [] type.kind = "structure" -> visit_structure_type(v, type)
      [] type.kind = "floating_point" -> visit_floating_point_type(v, type)
      [] type.kind = "enumeration" -> visit_enumeration(v, type)
      [] type.kind = "variant" -> visit_variant(v, type)

\* the type suffixes of the queue, from its front
RECURSIVE Suffixes(_)
Suffixes(q) == IF q = <<>> THEN "" ELSE Head(q) \o Suffixes(Tail(q))

\* visit(const lst::field&)
visit_field(v, field) ==
    LET name == IF v.bypass_identifier_escape
                THEN [status |-> "ok", value |-> field.name]
                ELSE escape_tsdl_identifier(field.name)
        v1 == [v EXCEPT !.current_field_name = <<Str(name.value)>> \o @]
        v2 == visit_type(v1, field.type)
        v3 == Emit(v2, " " \o Head(v2.current_field_name))
        v4 == [v3 EXCEPT !.current_field_name = Tail(@)]
    IN IF name.status # "ok" THEN Throw(v)
       ELSE IF v2.status # "ok" THEN v2
       ELSE Emit([v4 EXCEPT !.type_suffixes = <<>>],
                 Suffixes(v4.type_suffixes) \o ";")

\* a null type pointer (get_event_header() and the like return none)
no_type == [kind |-> "none"]

\* Mutation: the event context visitor is given the default clock class
\* name.
Mut_visit_stream_class_ContextClock(abi, stream_class) ==
    LET s0 == "stream {\n" \o "\tid = " \o ToString(stream_class.id) \o ";\n"
        hv == visit_type(tsdl_field_visitor(abi, 1,
                             stream_class.default_clock_class_name),
                         stream_class.event_header)
        s1 == IF stream_class.event_header = no_type THEN s0
              ELSE s0 \o "\tevent.header := " \o hv.description \o ";\n"
        pv == visit_type(tsdl_field_visitor(abi, 1,
                             stream_class.default_clock_class_name),
                         stream_class.packet_context)
        s2 == IF stream_class.packet_context = no_type THEN s1
              ELSE s1 \o "\tpacket.context := " \o pv.description \o ";\n"
        cv == visit_type(tsdl_field_visitor(abi, 1,
                             stream_class.default_clock_class_name),
                         stream_class.event_context)
        s3 == IF stream_class.event_context = no_type THEN s2
              ELSE s2 \o "\tevent.context := " \o cv.description \o ";\n"
    IN IF stream_class.event_header # no_type /\ hv.status # "ok"
       THEN [status |-> hv.status, fragment |-> ""]
       ELSE IF stream_class.packet_context # no_type /\ pv.status # "ok"
       THEN [status |-> pv.status, fragment |-> ""]
       ELSE IF stream_class.event_context # no_type /\ cv.status # "ok"
       THEN [status |-> cv.status, fragment |-> ""]
       ELSE [status |-> "ok", fragment |-> s3 \o "};\n\n"]

\* trace_class_visitor::visit(const stream_class&): the stream fragment, or
\* how the visit ended when one of the field visitors did not return.
visit_stream_class(abi, stream_class) ==
    LET s0 == "stream {\n" \o "\tid = " \o ToString(stream_class.id) \o ";\n"
        hv == visit_type(tsdl_field_visitor(abi, 1,
                             stream_class.default_clock_class_name),
                         stream_class.event_header)
        s1 == IF stream_class.event_header = no_type THEN s0
              ELSE s0 \o "\tevent.header := " \o hv.description \o ";\n"
        pv == visit_type(tsdl_field_visitor(abi, 1,
                             stream_class.default_clock_class_name),
                         stream_class.packet_context)
        s2 == IF stream_class.packet_context = no_type THEN s1
              ELSE s1 \o "\tpacket.context := " \o pv.description \o ";\n"
        cv == visit_type(tsdl_field_visitor(abi, 1, NULL),
                         stream_class.event_context)
        s3 == IF stream_class.event_context = no_type THEN s2
              ELSE s2 \o "\tevent.context := " \o cv.description \o ";\n"
    IN IF stream_class.event_header # no_type /\ hv.status # "ok"
       THEN [status |-> hv.status, fragment |-> ""]
       ELSE IF stream_class.packet_context # no_type /\ pv.status # "ok"
       THEN [status |-> pv.status, fragment |-> ""]
       ELSE IF stream_class.event_context # no_type /\ cv.status # "ok"
       THEN [status |-> cv.status, fragment |-> ""]
       ELSE [status |-> "ok", fragment |-> s3 \o "};\n\n"]

ctf_spec_major == 1
ctf_spec_minor == 8

\* tsdl_trace_environment_visitor: the visits of the environment fields, in
\* the order of the trace class
RECURSIVE visit_environment(_)
visit_environment(fields) ==
    IF fields = <<>> THEN ""
    ELSE LET field == Head(fields)
         IN (IF field.kind = "int64"
             THEN "\t" \o field.name \o " = " \o ToString(field.value)
                  \o ";\n"
             ELSE "\t" \o field.name \o " = \""
                  \o Str(escape_tsdl_env_string_value(field.value))
                  \o "\";\n")
            \o visit_environment(Tail(fields))

\* trace_class_visitor::visit(const trace_class&): the trace fragment and the
\* env fragment, or how the visit ended when the packet header visitor did
\* not return.
visit_trace_class(trace_class) ==
    LET packet_header_visitor ==
            visit_type(tsdl_field_visitor(trace_class.abi, 1, NULL),
                       trace_class.packet_header)
        trace_class_tsdl ==
            "/* CTF " \o ToString(ctf_spec_major) \o "."
            \o ToString(ctf_spec_minor) \o " */\n\n"
            \o "trace {\n"
            \o "\tmajor = " \o ToString(ctf_spec_major) \o ";\n"
            \o "\tminor = " \o ToString(ctf_spec_minor) \o ";\n"
            \o "\tuuid = \"" \o trace_class.uuid \o "\";\n"
            \o "\tbyte_order = "
            \o (IF trace_class.abi.byte_order = "BIG_ENDIAN_"
                THEN "be" ELSE "le") \o ";\n"
            \o "\tpacket.header := " \o packet_header_visitor.description
            \o ";\n" \o "};\n\n"
        environment ==
            "env {\n" \o visit_environment(trace_class.environment)
            \o "};\n\n"
    IN IF packet_header_visitor.status # "ok"
       THEN [status |-> packet_header_visitor.status, fragments |-> <<>>]
       ELSE [status |-> "ok", fragments |-> <<trace_class_tsdl, environment>>]

\* trace_class_visitor::visit(const clock_class&)
visit_clock_class(clock_class) ==
    LET uuid_str == IF clock_class.uuid # NULL
                    THEN "\tuuid = \"" \o clock_class.uuid \o "\";\n"
                    ELSE ""
    IN [status |-> "ok",
        fragments |->
           <<"clock {\n"
             \o "\tname = \"" \o clock_class.name \o "\";\n"
             \o uuid_str
             \o "\tdescription = \"" \o clock_class.description \o "\";\n"
             \o "\tfreq = " \o ToString(clock_class.frequency) \o ";\n"
             \o "\toffset = " \o ToString(clock_class.offset) \o ";\n"
             \o "};\n" \o "\n">>]

\* trace_class_visitor::visit(const event_class&)
visit_event_class(abi, event_class) ==
    LET s0 == "event {\n"
              \o "\tname = \"" \o event_class.name \o "\";\n"
              \o "\tid = " \o ToString(event_class.id) \o ";\n"
              \o "\tstream_id = " \o ToString(event_class.stream_class_id)
              \o ";\n"
              \o "\tloglevel = " \o ToString(event_class.log_level) \o ";\n"
        s1 == IF event_class.model_emf_uri # NULL
              THEN s0 \o "\tmodel.emf.uri = \"" \o event_class.model_emf_uri
                      \o "\";\n"
              ELSE s0
        payload_visitor ==
            visit_type(tsdl_field_visitor(abi, 1, NULL), event_class.payload)
    IN IF payload_visitor.status # "ok"
       THEN [status |-> payload_visitor.status, fragments |-> <<>>]
       ELSE [status |-> "ok",
             fragments |-> <<s1 \o "\tfields := "
                             \o payload_visitor.description \o ";\n};\n\n">>]

\* ---- the calls made on the emitter
MaxIdLen == 3
MaxEnvLen == 3
MaxFragments == 3

\* the sequences over S of length at most n
SeqsUpTo(S, n) == UNION {[1..k -> S] : k \in 0..n}

IdChars == {"a", "7", "_", "!", "i", "d"}
EnvChars == {NL, BS, DQ, "a", "n"}

name_ts == <<"t", "s">>
name_id == <<"i", "d">>
name_payload == <<"p", "a", "y", "l", "o", "a", "d">>
name_length == <<"l", "e", "n", "g", "t", "h">>
name_my_field == <<"m", "y", " ", "f", "i", "e", "l", "d", "!">>
name_uuid == <<"u", "u", "i", "d">>

Identifiers == SeqsUpTo(IdChars, MaxIdLen) \cup {name_my_field, name_uuid}

ByteOrders == {"BIG_ENDIAN_", "LITTLE_ENDIAN_"}
ClockNames == {NULL, "monotonic"}

IntegerTypes ==
    {integer_type(alignment, byte_order, size, signedness, base, roles) :
        alignment \in {1, 8}, byte_order \in ByteOrders, size \in {8, 64},
        signedness \in {"SIGNED", "UNSIGNED"},
        base \in {"BINARY", "OCTAL", "DECIMAL", "HEXADECIMAL"},
        roles \in {{}, {"DEFAULT_CLOCK_TIMESTAMP"},
                   {"PACKET_END_DEFAULT_CLOCK_TIMESTAMP"},
                   {"PACKET_MAGIC_NUMBER"},
                   {"PACKET_MAGIC_NUMBER", "DEFAULT_CLOCK_TIMESTAMP"}}}

LengthLocations == {<<name_length>>, <<name_payload, name_length>>, <<name_id>>}

StringTypes ==
    {[kind |-> "null_terminated_string", encoding_ |-> e] :
        e \in {"ASCII", "UTF8"}}
    \cup {[kind |-> "static_length_string", alignment |-> a, encoding_ |-> e,
           length |-> 16] : a \in {0, 8}, e \in {"ASCII", "UTF8"}}
    \cup {[kind |-> "dynamic_length_string", alignment |-> a, encoding_ |-> e,
           length_field_location |-> l] :
             a \in {0, 8}, e \in {"ASCII", "UTF8"}, l \in LengthLocations}

uint32 == integer_type(8, "LITTLE_ENDIAN_", 32, "UNSIGNED", "DECIMAL", {})

ArrayTypes ==
    {static_length_array_type(a, uint32, 4) : a \in {0, 8}}
    \cup {dynamic_length_array_type(a, uint32, l) :
             a \in {0, 8}, l \in LengthLocations}
    \cup {[kind |-> "static_length_blob", alignment |-> a,
           length_bytes |-> 16] : a \in {0, 8}}
    \cup {[kind |-> "dynamic_length_blob", alignment |-> a,
           length_field_location |-> <<name_length>>] : a \in {0, 8}}

structure_type(fields) == [kind |-> "structure", fields_ |-> fields]

Fields ==
    {[name |-> n, type |-> t] : n \in {name_ts, name_id}, t \in IntegerTypes}
    \cup {[name |-> n, type |-> t] :
             n \in {name_payload, name_my_field},
             t \in StringTypes \cup ArrayTypes}

name_tag == <<"t", "a", "g">>
name_a_bang == <<"a", "!">>

\* the choices of the variants visited: names that are and are not TSDL
\* identifiers, over an integer and over a structure of one field
ChoiceNames == {<<"A">>, name_a_bang, <<"_", "b">>}
ChoiceTypes ==
    {uint32, structure_type(<<[name |-> name_a_bang, type |-> uint32]>>)}
MaxChoices == 2
ChoiceLists ==
    SeqsUpTo([name : ChoiceNames, type : ChoiceTypes], MaxChoices) \ {<<>>}

\* the enumeration selecting among the choices: one mapping per choice
tag_of(choices) ==
    enumeration_type(8, "LITTLE_ENDIAN_", 8, "UNSIGNED", "DECIMAL", {},
        [i \in 1..Len(choices) |->
            [name |-> choices[i].name, begin |-> i - 1, end |-> i - 1]])

\* structures of a tag, a variant selected by it and a field after the variant
VariantStructures ==
    {structure_type(<<[name |-> name_tag, type |-> tag_of(c)],
                      [name |-> name_payload,
                       type |-> variant_type(a, <<name_tag>>, c)],
                      [name |-> name_my_field, type |-> uint32]>>) :
        a \in {0, 8}, c \in ChoiceLists}

\* types whose every detail TSDL can express, for the round trip: arrays,
\* blobs, a floating point number, an enumeration, a variant of an integer,
\* a variant of an array and an array of variants, each as the field payload
float32 ==
    [kind |-> "floating_point", alignment |-> 32, mantissa_digits |-> 24,
     exponent_digits |-> 8, byte_order |-> "LITTLE_ENDIAN_"]

enum_ab ==
    enumeration_type(8, "LITTLE_ENDIAN_", 8, "SIGNED", "DECIMAL", {},
        <<[name |-> <<"A">>, begin |-> 0, end |-> 0],
          [name |-> <<"B">>, begin |-> 1, end |-> 3]>>)

variant_of_integer ==
    variant_type(0, <<name_tag>>, <<[name |-> <<"A">>, type |-> uint32]>>)

variant_of_array ==
    variant_type(0, <<name_tag>>,
        <<[name |-> <<"A">>,
           type |-> static_length_array_type(0, uint32, 4)]>>)

array_of_variant == static_length_array_type(0, variant_of_integer, 4)

RoundTripTypes ==
    {structure_type(<<[name |-> name_payload, type |-> t]>>) :
        t \in ArrayTypes \cup {uint32, float32, enum_ab, variant_of_integer,
                               variant_of_array, array_of_variant}}

\* the types handed to a field visitor: structures of one field, structures
\* with a variant, the types of the round trip, and some of none, of two and
\* of a nested structure
\* structures whose first field makes the visitor change its traversal
\* state, followed by an integer field
BalanceTypes ==
    {structure_type(<<[name |-> name_payload, type |-> t],
                      [name |-> name_my_field, type |-> uint32]>>) :
        t \in {type \in StringTypes : type.kind # "dynamic_length_string"}
               \cup {[kind |-> "dynamic_length_string", alignment |-> 8,
                      encoding_ |-> "ASCII",
                      length_field_location |-> <<name_length>>],
                     variant_of_integer, variant_of_array,
                     structure_type(<<[name |-> name_ts, type |-> uint32]>>),
                     static_length_array_type(8, uint32, 4)}}

VisitedTypes ==
    {structure_type(<<f>>) : f \in Fields}
    \cup VariantStructures
    \cup RoundTripTypes
    \cup BalanceTypes
    \cup {structure_type(<<>>),
          structure_type(<<[name |-> name_length, type |-> uint32],
                           [name |-> name_payload,
                            type |-> [kind |-> "dynamic_length_string",
                                      alignment |-> 8, encoding_ |-> "UTF8",
                                      length_field_location |->
                                          <<name_length>>]]>>),
          structure_type(<<[name |-> name_my_field,
                            type |-> structure_type(
                                <<[name |-> name_ts, type |-> uint32]>>)],
                           [name |-> <<>>, type |-> uint32]>>)}

\* The emitter is not in a call (and its process has not been aborted).
EmitterIdle == tsdl_call.op = "none"

\* The caller has taken the result of the call, or caught its exception.
EmitterCallDone ==
    /\ tsdl_call.op # "none"
    /\ tsdl_ret.status # "abort"
    /\ tsdl_call' = [op |-> "none"]
    /\ tsdl_ret' = [status |-> "none"]
    /\ UNCHANGED <<snapvars, ctfvars, vmsvars, vsvars, metadata>>

\* A call of escape_tsdl_identifier.
EscapeIdentifier(id) ==
    /\ EmitterIdle
    /\ tsdl_call' = [op |-> "escape_tsdl_identifier", arg |-> id]
    /\ tsdl_ret' = escape_tsdl_identifier(id)
    /\ UNCHANGED <<snapvars, ctfvars, vmsvars, vsvars, metadata>>

\* A call of escape_tsdl_env_string_value.
EscapeEnvString(str) ==
    /\ EmitterIdle
    /\ tsdl_call' = [op |-> "escape_tsdl_env_string_value", arg |-> str]
    /\ tsdl_ret' = [status |-> "ok",
                    value |-> escape_tsdl_env_string_value(str)]
    /\ UNCHANGED <<snapvars, ctfvars, vmsvars, vsvars, metadata>>

\* A type accepts a field visitor made for a trace ABI and a default clock
\* class name; the visitor is kept as it is after the visit.
VisitType(byte_order, clock, type) ==
    /\ EmitterIdle
    /\ tsdl_call' = [op |-> "visit", byte_order |-> byte_order,
                     clock |-> clock, type |-> type]
    /\ tsdl_ret' = visit_type(
                       tsdl_field_visitor([byte_order |-> byte_order], 1,
                                          clock),
                       type)
    /\ UNCHANGED <<snapvars, ctfvars, vmsvars, vsvars, metadata>>

NextEmit ==
    \/ \E id \in Identifiers : EscapeIdentifier(id)
    \/ \E str \in SeqsUpTo(EnvChars, MaxEnvLen) : EscapeEnvString(str)
    \/ \E byte_order \in ByteOrders, clock \in ClockNames,
          type \in VisitedTypes : VisitType(byte_order, clock, type)
    \/ EmitterCallDone

\* the stream classes visited
header_ts ==
    structure_type(<<[name |-> name_ts,
                      type |-> integer_type(8, "LITTLE_ENDIAN_", 64,
                                   "UNSIGNED", "DECIMAL",
                                   {"DEFAULT_CLOCK_TIMESTAMP"})]>>)

context_plain == structure_type(<<[name |-> name_id, type |-> uint32]>>)

context_clock ==
    structure_type(<<[name |-> name_ts,
                      type |-> integer_type(8, "LITTLE_ENDIAN_", 64,
                                   "UNSIGNED", "DECIMAL",
                                   {"PACKET_END_DEFAULT_CLOCK_TIMESTAMP"})]>>)

StreamClasses ==
    [id : {0}, default_clock_class_name : ClockNames,
     event_header : {no_type, header_ts},
     packet_context : {no_type, context_plain, context_clock},
     event_context : {no_type, context_plain, context_clock}]

\* the trace classes, clock classes and event classes visited
packet_header ==
    structure_type(<<[name |-> name_id,
                      type |-> integer_type(8, "LITTLE_ENDIAN_", 32,
                                   "UNSIGNED", "HEXADECIMAL",
                                   {"PACKET_MAGIC_NUMBER"})]>>)

TraceClasses ==
    [abi : {[byte_order |-> "LITTLE_ENDIAN_"]},
     uuid : {"83656eb1-b131-40e7-9666-c04ae279b58c"},
     packet_header : {packet_header, header_ts},
     environment :
        {<<>>,
         <<[kind |-> "string", name |-> "hostname", value |-> <<"a", DQ>>],
           [kind |-> "int64", name |-> "tracer_major", value |-> 2]>>}]

ClockClasses ==
    [name : {"monotonic"}, uuid : {NULL, "83656eb1-b131-40e7-9666-c04ae279b58c"},
     description : {"Monotonic Clock"}, frequency : {1000000000},
     offset : {0}]

EventClasses ==
    [name : {"my_event"}, id : {0}, stream_class_id : {0}, log_level : {13},
     model_emf_uri : {NULL, "http://example.com/model"},
     payload : {context_plain, context_clock}]

\* Mutation: the fragments of a visit are put before those already appended.
Mut_VisitorCallDone_Prepend(ret) ==
    /\ tsdl_ret' = ret
    /\ metadata' = IF ret.status = "ok" THEN ret.fragments \o metadata
                   ELSE metadata
    /\ UNCHANGED <<snapvars, ctfvars, vmsvars, vsvars>>

\* Every fragment of a finished visit goes to append_metadata_fragment, in
\* order; a visit that does not return has appended nothing.
VisitorCallDone(ret) ==
    /\ tsdl_ret' = ret
    /\ metadata' = IF ret.status = "ok" THEN metadata \o ret.fragments
                   ELSE metadata
    /\ UNCHANGED <<snapvars, ctfvars, vmsvars, vsvars>>

\* A trace class accepts the trace class visitor.
VisitTraceClass(trace_class) ==
    /\ EmitterIdle
    /\ Len(metadata) + 2 <= MaxFragments
    /\ tsdl_call' = [op |-> "visit_trace_class", trace_class |-> trace_class]
    /\ VisitorCallDone(visit_trace_class(trace_class))

\* A clock class accepts the trace class visitor.
VisitClockClass(clock_class) ==
    /\ EmitterIdle
    /\ Len(metadata) < MaxFragments
    /\ tsdl_call' = [op |-> "visit_clock_class", clock_class |-> clock_class]
    /\ VisitorCallDone(visit_clock_class(clock_class))

\* An event class accepts the trace class visitor.
VisitEventClass(byte_order, event_class) ==
    /\ EmitterIdle
    /\ Len(metadata) < MaxFragments
    /\ tsdl_call' = [op |-> "visit_event_class", byte_order |-> byte_order,
                     event_class |-> event_class]
    /\ VisitorCallDone(visit_event_class([byte_order |-> byte_order],
                                         event_class))

\* A stream class accepts the trace class visitor; the fragment goes to the
\* append_metadata_fragment callback.
VisitStreamClass(byte_order, stream_class) ==
    /\ EmitterIdle
    /\ Len(metadata) < MaxFragments
    /\ tsdl_call' = [op |-> "visit_stream_class", byte_order |-> byte_order,
                     stream_class |-> stream_class]
    /\ tsdl_ret' = visit_stream_class([byte_order |-> byte_order],
                                      stream_class)
    /\ metadata' = IF tsdl_ret'.status = "ok"
                   THEN Append(metadata, tsdl_ret'.fragment)
                   ELSE metadata
    /\ UNCHANGED <<snapvars, ctfvars, vmsvars, vsvars>>

NextMetadata ==
    \/ \E trace_class \in TraceClasses : VisitTraceClass(trace_class)
    \/ \E clock_class \in ClockClasses : VisitClockClass(clock_class)
    \/ \E stream_class \in StreamClasses :
          VisitStreamClass("LITTLE_ENDIAN_", stream_class)
    \/ \E event_class \in EventClasses :
          VisitEventClass("LITTLE_ENDIAN_", event_class)
    \/ EmitterCallDone

\* ------------------------------------------------------- snapshot outputs

\* Mutation: the value before the addition is returned and kept.
Mut_get_next_output_id(next) == next

\* uatomic_add_return(&snapshot->next_output_id, 1): the value after the
\* addition (the counter stays far below the width of an unsigned long and
\* of the uint32_t id, the calls being bounded by MaxOutputs)
get_next_output_id(next) == next + 1

\* the values output_init returns without an error
OutputInitOk == {"0", "snprintf"}

\* DEFAULT_SNAPSHOT_NAME
DEFAULT_SNAPSHOT_NAME == "snapshot"

\* the names given to output_init: none, the empty string, a name that fits
\* output->name and one that does not
OutputNames == {NULL, "", "mine", "name-longer-than-the-name-field"}

NameFits(name) == name # "name-longer-than-the-name-field"

\* The start of output_init on the snapshot object: the output is zeroed,
\* max_size is set (-1ULL means unset) and the id is taken from the
\* snapshot's counter in one atomic step.
OutputInitId(o, max_size, name) ==
    /\ snapshot_output[o].state = "none"
    /\ \A o2 \in OutputObj : o2 < o => snapshot_output[o2].state # "none"
    /\ next_output_id' = get_next_output_id(next_output_id)
    /\ snapshot_output' =
          [snapshot_output EXCEPT ![o] =
              [state |-> "id_taken",
               max_size |-> IF max_size = "-1ULL" THEN "0" ELSE max_size,
               id |-> next_output_id',
               name |-> "", arg_name |-> name, consumer |-> NULL,
               calls_before |->
                  Cardinality({o2 \in OutputObj :
                                  snapshot_output[o2].state # "none"}),
               initialised_before |->
                  Cardinality({o2 \in OutputObj :
                                  /\ snapshot_output[o2].state = "done"
                                  /\ snapshot_output[o2].ret \in
                                         OutputInitOk}),
               ret |-> "none"]]
    /\ UNCHANGED <<snaptabvars, ctfvars, vmsvars, vsvars, tsdlvars>>

\* What is left of the output after the name is set: the consumer copy and
\* the destination taken from the URIs.
output_init_consumer(output, consumer, copy_ok, nb_uri, dtype, path_fits, net_ret, name_ret) ==
    IF consumer = NULL
    THEN [output EXCEPT !.ret = name_ret]
    ELSE IF ~copy_ok
    THEN [output EXCEPT !.ret = "-ENOMEM"]
    ELSE LET out == [output EXCEPT !.consumer = "snapshot_copy"]
         IN IF nb_uri = 0 THEN [out EXCEPT !.ret = "0"]
            ELSE IF dtype = "LTTNG_DST_PATH"
            THEN IF path_fits
                 THEN [out EXCEPT !.consumer = "CONSUMER_DST_LOCAL",
                                  !.ret = "0"]
                 ELSE [out EXCEPT !.ret = "-LTTNG_ERR_INVALID"]
            ELSE IF nb_uri # 2
            THEN [out EXCEPT !.ret = "-LTTNG_ERR_INVALID"]
            ELSE [out EXCEPT !.ret = net_ret]

\* The rest of output_init: the name given, or the default name made of the
\* id, then the consumer. The value returned is kept in ret ("snprintf" is
\* the positive length snprintf returned, when nothing overwrites it).
OutputInitRest(o, consumer, copy_ok, nb_uri, dtype, path_fits, net_ret) ==
    /\ snapshot_output[o].state = "id_taken"
    /\ LET output == snapshot_output[o]
           name == output.arg_name
           done == [output EXCEPT !.state = "done"]
       IN snapshot_output' =
             [snapshot_output EXCEPT ![o] =
                 IF name # NULL /\ name # ""
                 THEN IF NameFits(name)
                      THEN output_init_consumer(
                               [done EXCEPT !.name = name], consumer,
                               copy_ok, nb_uri, dtype, path_fits, net_ret,
                               "0")
                      ELSE [done EXCEPT !.ret = "-LTTNG_ERR_INVALID"]
                 ELSE output_init_consumer(
                          [done EXCEPT !.name = DEFAULT_SNAPSHOT_NAME \o "-"
                                                \o ToString(output.id)],
                          consumer, copy_ok, nb_uri, dtype, path_fits,
                          net_ret, "snprintf")]
    /\ UNCHANGED <<next_output_id, snaptabvars, ctfvars, vmsvars, vsvars,
                   tsdlvars>>

\* -------------------------------------------------- snapshot output table
\* An output output_init has returned from without an error: what a caller
\* hands to snapshot_add_output.
Initialised(o) ==
    /\ snapshot_output[o].state = "done"
    /\ snapshot_output[o].ret \in OutputInitOk

\* the outputs of the table whose node has the key of output o (its id)
SameKey(ht, o) ==
    {o2 \in ht.nodes : snapshot_output[o2].id = snapshot_output[o].id}

\* lttng_ht_add_unique_ulong(snapshot->output_ht, &output->node), a unique
\* add that returns nothing: the node is linked when no node of the table
\* has its key. When one has, the table is left as it is, and the call
\* either returns or ends the process on an assertion (asserts); the
\* function is not part of the sources, both outcomes are kept.
lttng_ht_add_unique_ulong(snap, o, asserts) ==
    IF SameKey(snap.output_ht, o) = {}
    THEN [snap EXCEPT !.output_ht.nodes = snap.output_ht.nodes \cup {o}]
    ELSE IF asserts THEN [snap EXCEPT !.aborted = "yes"]
    ELSE snap

\* the fields of struct snapshot the table operations work on
snapshot_obj ==
    [output_ht |-> output_ht, nb_output |-> nb_output, aborted |-> aborted]

\* what no table operation changes
snapframe ==
    <<next_output_id, snapshot_output, snapshot_ret,
      last_relay_ctf_trace_id, nalloc, trace, ctf_traces_ht, session_ref,
      session_owner, stream, rcu_reader, rcu_wait, pc, loc, tsc_calls,
      vmsvars, vsvars, tsdlvars>>

\* snapshot_add_output(snapshot, output): the unique add, then nb_output++
\* whatever the add did
snapshot_add_output(snap, o, asserts) ==
    LET added == lttng_ht_add_unique_ulong(snap, o, asserts)
    IN IF added.aborted # "no" THEN added
       ELSE [added EXCEPT !.nb_output = snap.nb_output + 1]

\* A call of snapshot_add_output on an output output_init has initialised.
\* The table must not have been destroyed (its memory is gone after
\* snapshot_destroy). The calls stop when nb_output has reached MaxNbOutput.
SnapshotAddOutput(o, asserts) ==
    /\ aborted = "no"
    /\ output_ht.ht = "valid"
    /\ Initialised(o)
    /\ nb_output < MaxNbOutput
    /\ asserts => SameKey(output_ht, o) # {}
    /\ LET snap == snapshot_add_output(snapshot_obj, o, asserts)
       IN /\ output_ht' = snap.output_ht
          /\ nb_output' = snap.nb_output
          /\ aborted' = snap.aborted
    /\ UNCHANGED snapframe

\* lttng_ht_del(snapshot->output_ht, &iter): 0 and the node unlinked, or an
\* error when the node is not linked in the table
lttng_ht_del(ht, o) ==
    IF o \in ht.nodes
    THEN [ret |-> 0, ht |-> [ht EXCEPT !.nodes = ht.nodes \ {o}]]
    ELSE [ret |-> -1, ht |-> ht]

\* snapshot_delete_output(snapshot, output): lttng_ht_del,
\* LTTNG_ASSERT(!ret), nb_output--
snapshot_delete_output(snap, o) ==
    LET del == lttng_ht_del(snap.output_ht, o)
    IN IF del.ret # 0 THEN [snap EXCEPT !.aborted = "yes"]
       ELSE [snap EXCEPT !.output_ht = del.ht,
                         !.nb_output = snap.nb_output - 1]

\* A call of snapshot_delete_output on an initialised output.
SnapshotDeleteOutput(o) ==
    /\ aborted = "no"
    /\ output_ht.ht = "valid"
    /\ Initialised(o)
    /\ LET snap == snapshot_delete_output(snapshot_obj, o)
       IN /\ output_ht' = snap.output_ht
          /\ nb_output' = snap.nb_output
          /\ aborted' = snap.aborted
    /\ UNCHANGED snapframe

\* The loop of snapshot_destroy: snapshot_delete_output and
\* snapshot_output_destroy for every output of the table, in the order the
\* table gives them.
RECURSIVE DestroyLoop(_, _)
DestroyLoop(snap, todo) ==
    IF todo = {} \/ snap.aborted # "no" THEN snap
    ELSE LET o == CHOOSE o2 \in todo : TRUE
         IN DestroyLoop(snapshot_delete_output(snap, o), todo \ {o})

\* snapshot_destroy(obj): the loop, then lttng_ht_destroy(obj->output_ht);
\* obj->output_ht keeps pointing to the freed table. (The early return for
\* a table that was never allocated does not arise: snapshot_init has
\* succeeded.)
SnapshotDestroy ==
    /\ aborted = "no"
    /\ output_ht.ht = "valid"
    /\ LET snap == DestroyLoop(snapshot_obj, output_ht.nodes)
       IN /\ output_ht' = [snap.output_ht EXCEPT !.ht = "destroyed"]
          /\ nb_output' = snap.nb_output
          /\ aborted' = snap.aborted
    /\ UNCHANGED snapframe

\* The characters of the names used.
Chars(str) ==
    CASE str = "mine" -> <<"m", "i", "n", "e">>
      [] str = "mi" -> <<"m", "i">>
      [] str = "other" -> <<"o", "t", "h", "e", "r">>
      [] str = DEFAULT_SNAPSHOT_NAME ->
            <<"s", "n", "a", "p", "s", "h", "o", "t">>
      [] str = "-" -> <<"-">>
      [] str = "" -> <<>>

\* PRIu32: the decimal digits of an id
RECURSIVE Decimal(_)
Decimal(n) ==
    IF n < 10 THEN <<ToString(n)>>
    ELSE Decimal(n \div 10) \o <<ToString(n % 10)>>

\* output->name as output_init has set it: the name given, or the default
\* name made of the id
output_name(o) ==
    LET output == snapshot_output[o]
    IN IF output.arg_name # NULL /\ output.arg_name # ""
       THEN Chars(output.arg_name)
       ELSE Chars(DEFAULT_SNAPSHOT_NAME) \o Chars("-") \o Decimal(output.id)

\* the character of a C string at position i (from 1), the terminating
\* NUL after its end
CharAt(str, i) == IF i <= Len(str) THEN str[i] ELSE "NUL"

strlen(str) == Len(str)

\* strncmp(s1, s2, n) = 0: the strings agree on their first n characters,
\* or up to the NUL that ends both
strncmp_equal(s1, s2, n) == \A i \in 1..n : CharAt(s1, i) = CharAt(s2, i)

\* snapshot_find_output_by_name(name, snapshot): the outputs the traversal
\* can return, which is the first output of the table, in the order of the
\* table, that !strncmp(output->name, name, strlen(name)) holds for; 0
\* stands for NULL, returned when it holds for none.
snapshot_find_output_by_name(name, ht) ==
    LET found == {o \in ht.nodes :
                     strncmp_equal(output_name(o), name, strlen(name))}
    IN IF found = {} THEN {0} ELSE found

\* the names looked for
FindNames ==
    {Chars("mine"), Chars("mi"), Chars("other"), Chars(""),
     Chars(DEFAULT_SNAPSHOT_NAME) \o Chars("-") \o Decimal(1)}

SnapshotFindOutputByName(name, o) ==
    /\ aborted = "no"
    /\ output_ht.ht = "valid"
    /\ o \in snapshot_find_output_by_name(name, output_ht)
    /\ snapshot_ret' = [op |-> "find_by_name", name |-> name, ret |-> o]
    /\ UNCHANGED <<next_output_id, snapshot_output, output_ht, nb_output,
                   ctfvars, vmsvars, vsvars, tsdlvars>>

\* One step of thread th, which asks for the subpaths of P.
ThreadStep(th, P) ==
    \/ \E s \in CtfSessions, p \in P : GbpCall(th, s, p)
    \/ GbpGet(th)
    \/ CreateAlloc(th)
    \/ CreateInit(th)
    \/ CreatePublish(th)
    \/ CreateError(th)
    \/ CtfTracePut(th)
    \/ CtfTraceRelease(th)
    \/ CtfTraceDestroy(th)

\* the subpath the concurrent callers contend on
RacePaths == {"ust/a"}

Next ==
    \/ \E th \in Threads : ThreadStep(th, RacePaths)
    \/ \E t \in TraceObj : rcu_destroy_ctf_trace(t)
    \/ \E s \in CtfSessions : SessionOwnerPut(s)

StreamStep(th) ==
    \/ \E st \in StreamObj : StreamCreate(th, st)
    \/ \E st \in StreamObj : StreamDestroy(th, st)
    \/ ctf_trace_close(th)

\* the worker thread that handles the connection's commands
Worker == {1}

NextClose ==
    \/ \E th \in Worker : ThreadStep(th, Paths)
    \/ \E th \in Worker : StreamStep(th)
    \/ \E st \in StreamObj : ControlStreamClose(st)
    \/ \E t \in TraceObj : rcu_destroy_ctf_trace(t)

\* ------------------------------------------------------------------ claims
\* The trace a thread holds a returned reference on (0: none).
Held(th) == IF pc[th] = "idle" THEN loc[th].trace ELSE 0

\* C1: any two callers of ctf_trace_get_by_path_or_create that hold a
\* returned trace for the same (session, subpath) hold the same object, with
\* the same id: at most one trace is created and published for the pair.
C1_SameTraceForAllCallers ==
    \A a, b \in Threads :
        (/\ Held(a) # 0
         /\ Held(b) # 0
         /\ trace[Held(a)].session = trace[Held(b)].session
         /\ trace[Held(a)].node_key = trace[Held(b)].node_key)
        => (Held(a) = Held(b) /\ trace[Held(a)].id = trace[Held(b)].id)

\* The step of thread th that runs ctf_trace_get on the node it looked up.
GetStep(th) == pc[th] = "gbp_get" /\ pc'[th] # "gbp_get"

\* C2: ctf_trace_get takes a reference iff the count was > 0 before the
\* call, then raising it by exactly one; at zero it fails and the count
\* stays zero.
C2_GetIsIncrementUnlessZero ==
    [][\A th \in Threads :
          GetStep(th) =>
              LET t == loc[th].node
              IN IF trace[t].ref > 0
                 THEN /\ loc'[th].trace = t
                      /\ trace'[t].ref = trace[t].ref + 1
                 ELSE /\ loc'[th].trace = 0
                      /\ trace'[t].ref = 0]_vars

\* C2 witness: a get failed on a trace whose count was already zero, and the
\* caller went on to create.
C2_Witness ==
    \E th \in Threads :
        /\ pc[th] = "create_alloc"
        /\ loc[th].node # 0
        /\ trace[loc[th].node].ref = 0

\* C3: once the last reference is dropped the trace is out of its session's
\* table before ctf_trace_destroy runs and before its memory is scheduled for
\* reclamation; a count of zero stays zero and no call returns that trace.
C3_RemovedBeforeDestroy ==
    /\ [](\A t \in TraceObj :
            trace[t].mem \in {"scheduled", "freed"} => ~InTable(t))
    /\ [](\A th \in Threads :
            pc[th] = "destroy" => ~InTable(loc[th].node))
    /\ [](\A th \in Threads : Held(th) # 0 => trace[Held(th)].ref > 0)
    /\ [][\A t \in TraceObj :
            (trace[t].mem # "unalloc" /\ trace[t].ref = 0)
            => trace'[t].ref = 0]_vars

\* C3 witness: a published trace lost its last reference and is scheduled
\* for reclamation.
C3_Witness ==
    \E t \in TraceObj :
        trace[t].mem = "scheduled" /\ trace[t].node_key # NULL

\* C4: a freed trace has a count of zero, every read-side section that was in
\* progress when the count reached zero has ended, and no thread inside a
\* read-side section holds a pointer to it.
C4_FreedAfterGracePeriod ==
    \A t \in TraceObj :
        trace[t].mem = "freed" =>
            /\ trace[t].ref = 0
            /\ trace[t].stream_list = <<>>
            /\ trace[t].zero_readers = {}
            /\ \A th \in Threads : rcu_reader[th] => loc[th].node # t

\* C4 witness: a reader found the trace, failed to get it because it was
\* being torn down, left its read-side section, and the trace is now freed.
C4_Witness ==
    \E t \in TraceObj, th \in Threads :
        /\ trace[t].mem = "freed"
        /\ pc[th] = "create_alloc"
        /\ loc[th].node = t

\* C5: a session's table holds at most one entry with a count > 0 per
\* subpath.
C5_OneLiveEntryPerPath ==
    \A s \in Sessions, p \in Paths :
        Cardinality({t \in HtLookup(s, p) : trace[t].ref > 0}) <= 1

\* Every field ctf_trace_create sets is set, for a trace of session s.
Constructed(t, s) ==
    /\ trace[t].mem = "alloc"
    /\ trace[t].session = s
    /\ trace[t].path \in Paths
    /\ trace[t].node_key = trace[t].path
    /\ trace[t].id > 0
    /\ trace[t].list_init
    /\ trace[t].locks_init

\* C6: a trace in a session's table is fully constructed, and so is every
\* trace a caller got a reference on.
C6_PublishedAfterConstruction ==
    /\ \A s \in Sessions : \A t \in ctf_traces_ht[s] : Constructed(t, s)
    /\ \A th \in Threads :
          Held(th) # 0 => Constructed(Held(th), trace[Held(th)].session)

\* C6 witness: a caller holds a trace it found by lookup while another
\* reference on it exists.
C6_Witness ==
    \E th \in Threads : Held(th) # 0 /\ trace[Held(th)].ref >= 2

AssignedIds == {trace[t].id : t \in {u \in TraceObj : trace[u].id # 0}}

\* C7: the ids handed out are exactly 1..last_relay_ctf_trace_id, no two
\* traces share one, and a newly assigned id is greater than every id
\* assigned before.
C7_IdsUniqueAndIncreasing ==
    /\ [](/\ AssignedIds = 1..last_relay_ctf_trace_id
          /\ \A t, u \in TraceObj :
                (trace[t].id # 0 /\ trace[t].id = trace[u].id) => t = u)
    /\ [][\A t \in TraceObj :
            (trace[t].id = 0 /\ trace'[t].id # 0)
            => \A u \in TraceObj : trace[u].id < trace'[t].id]_vars

\* C7 witness: two traces were given ids while both creations were under way.
C7_Witness ==
    \E a, b \in Threads :
        /\ a # b
        /\ pc[a] = "create_publish"
        /\ pc[b] = "create_publish"
        /\ trace[loc[a].trace].id # trace[loc[b].trace].id

\* C8: ctf_trace_close calls try_stream_close exactly once on every stream
\* linked in the trace's list, returns 0, leaves the trace (and its count)
\* unchanged, leaves the streams of other lists alone, and a second call
\* changes no stream.
C8_CloseEveryStreamOnce ==
    [][\A th \in Threads :
          ctf_trace_close(th) =>
              LET t == loc[th].trace
                  list == trace[t].stream_list
              IN /\ tsc_calls'.ret = 0
                 /\ Len(tsc_calls'.calls) = Len(list)
                 /\ Range(tsc_calls'.calls) = Range(list)
                 /\ trace' = trace
                 /\ \A st \in Range(list) : stream'[st].state = "closing"
                 /\ \A st \in StreamObj \ Range(list) : stream'[st] = stream[st]
                 /\ CloseLoop(list, stream', <<>>).stream = stream']_vars

\* C8 witness: a close ran on a trace with two linked streams.
C8_Witness ==
    /\ tsc_calls.trace # 0
    /\ Len(tsc_calls.calls) >= 2
    /\ \A st \in Range(tsc_calls.calls) : stream[st].state = "closing"

\* C9: ctf_trace_get_viewer_metadata_stream returns no stream when none is
\* published; a published stream is returned with its count raised by one
\* iff the count was > 0, and at count zero no stream is returned and the
\* count stays zero.
C9_ViewerMetadataStreamGet ==
    [][\A th \in Threads :
          /\ (GvmsDeref(th)
                 /\ trace[loc[th].trace].viewer_metadata_stream = 0)
             => (pc'[th] = "idle" /\ vheld'[th] = 0 /\ vstream' = vstream)
          /\ (pc[th] = "gvms_get" /\ pc'[th] = "idle")
             => LET v == loc[th].vnode
                IN IF vstream[v].ref > 0
                   THEN /\ vheld'[th] = v
                        /\ vstream'[v].ref = vstream[v].ref + 1
                   ELSE /\ vheld'[th] = 0
                        /\ vstream'[v].ref = 0]_vars

\* C9 witness: the call read a published stream whose count had reached
\* zero and returned no stream.
C9_Witness ==
    \E th \in Threads :
        /\ pc[th] = "idle"
        /\ loc[th].vnode # 0
        /\ vheld[th] = 0
        /\ vstream[loc[th].vnode].ref = 0

\* An attach call on session s by viewer session vs.
AttachStep(vs, s) == \E copy_ok \in BOOLEAN : viewer_session_attach(vs, s, copy_ok)

ViewersOf(s) == {v \in VSessions : s \in Range(session_list[v])}

C12_CopyFailureIsUnknown ==
    [][\A vs \in VSessions, s \in Sessions :
          (/\ viewer_session_attach(vs, s, FALSE)
           /\ session_ref[s] > 0
           /\ ~viewer_attached[s]
           /\ current_trace_chunk[s] # NULL)
          => (/\ vs_ret'.code = "UNK"
              /\ session_list' = session_list
              /\ session_ref' = session_ref)]_vars

\* C12 witness: an attach has returned Unknown on a session that exists and
\* holds a trace chunk, which only a failed copy does.
C12_Witness ==
    /\ vs_ret.op = "attach"
    /\ vs_ret.code = "UNK"
    /\ session_ref[vs_ret.session] > 0
    /\ current_trace_chunk[vs_ret.session] # NULL
    /\ ~Linked(vs_ret.session)

\* The reference count a session has when no viewer session holds it: the
\* reference of the connection that owns it.
Baseline(s) == IF session_owner[s] THEN 1 ELSE 0

\* C13: after any sequence of attach and detach calls the reference count of
\* a session exceeds its baseline by one if the session is in a viewer
\* session's list and equals it otherwise.
C13_SessionRefAccounting ==
    \A s \in Sessions :
        session_ref[s] = Baseline(s) + (IF Linked(s) THEN 1 ELSE 0)

\* C14: viewer_session_close_one_session(vsession, session) leaves the count
\* of every viewer stream of the table whose relay stream belongs to the
\* session two lower than before the call; a viewer stream that held
\* exactly two references is torn down.
C14_DropsBothReferences ==
    [][\A vs \in VSessions, s \in Sessions :
          CloseOneSession(vs, s) =>
             \A v \in VStreamObj :
                (viewer_streams_ht[v].session = s
                    /\ viewer_streams_ht[v].ref >= 2)
                => (/\ viewer_streams_ht'[v].ref = viewer_streams_ht[v].ref - 2
                    /\ (viewer_streams_ht[v].ref = 2
                          => viewer_streams_ht'[v].session = NULL))]_vars

\* C15: when viewer_session_close(vsession) returns, the viewer session's
\* session_list is empty, every session that was in it has viewer_attached
\* clear and one reference less, and the viewer session's trace chunk is
\* released.
C15_CloseDetachesAll ==
    [][\A vs \in VSessions :
          (ViewerSessionClose(vs) /\ aborted' = "no")
          => (/\ session_list'[vs] = <<>>
              /\ \A s \in Range(session_list[vs]) :
                    /\ ~viewer_attached'[s]
                    /\ session_ref'[s] = session_ref[s] - 1
              /\ vs_chunk'[vs] = NULL)]_vars

\* C16: escape_tsdl_identifier fails on the empty identifier, returns an
\* identifier of the whitelist unchanged, and returns for any other x an
\* underscore followed by x with each character that is neither an ASCII
\* letter or digit nor '_' replaced by '_': the result has length |x| + 1,
\* starts with '_' and holds only [A-Za-z0-9_]; "my field!" gives
\* "_my_field_" and "uuid" gives "uuid".
C16_EscapeIdentifier ==
    tsdl_call.op = "escape_tsdl_identifier" =>
        LET x == tsdl_call.arg
            r == tsdl_ret
        IN /\ x = <<>> <=> r.status = "throw"
           /\ (x # <<>> /\ x \in safe_tsdl_identifiers) => r.value = x
           /\ (x # <<>> /\ x \notin safe_tsdl_identifiers) =>
                 /\ Len(r.value) = Len(x) + 1
                 /\ r.value[1] = "_"
                 /\ \A i \in 1..Len(x) :
                       r.value[i + 1] = IF x[i] \in Digit \cup Lower \cup Upper
                                              \cup {"_"}
                                        THEN x[i] ELSE "_"
                 /\ \A i \in 1..Len(r.value) :
                       r.value[i] \in Digit \cup Lower \cup Upper \cup {"_"}
           /\ x = name_my_field => Str(r.value) = "_my_field_"
           /\ x = name_uuid => Str(r.value) = "uuid"

\* C16 witness: the call on "my field!" has returned "_my_field_".
C16_Witness ==
    /\ tsdl_call.op = "escape_tsdl_identifier"
    /\ Str(tsdl_call.arg) = "my field!"
    /\ tsdl_ret.status = "ok"
    /\ Str(tsdl_ret.value) = "_my_field_"

\* The escaped form of an environment string value: a newline becomes
\* backslash n, a backslash two backslashes, a double quote backslash double
\* quote, any other character itself.
RECURSIVE EscapedEnvString(_)
EscapedEnvString(str) ==
    IF str = <<>> THEN <<>>
    ELSE (CASE Head(str) = NL -> <<BS, "n">>
            [] Head(str) = BS -> <<BS, BS>>
            [] Head(str) = DQ -> <<BS, DQ>>
            [] OTHER -> <<Head(str)>>)
         \o EscapedEnvString(Tail(str))

\* C17: escape_tsdl_env_string_value returns its argument with every
\* newline, backslash and double quote escaped and every other character
\* copied in order.
C17_EscapeEnvString ==
    tsdl_call.op = "escape_tsdl_env_string_value" =>
        tsdl_ret.value = EscapedEnvString(tsdl_call.arg)

\* The text of an integer type as the emission rule gives it: size and
\* align, then signed, base, byte_order, encoding and map, each under its
\* condition.
IntegerText(type, abi_byte_order, encoding, clock) ==
    "integer { size = " \o ToString(type.size) \o "; align = "
    \o ToString(type.alignment) \o ";"
    \o (IF type.signedness_ = "SIGNED" THEN " signed = true;" ELSE "")
    \o (CASE type.base_ = "BINARY" -> " base = 2;"
          [] type.base_ = "OCTAL" -> " base = 8;"
          [] type.base_ = "HEXADECIMAL" -> " base = 16;"
          [] OTHER -> "")
    \o (IF type.byte_order = abi_byte_order THEN ""
        ELSE IF type.byte_order = "BIG_ENDIAN_" THEN " byte_order = be;"
        ELSE " byte_order = le;")
    \o (IF encoding = NULL THEN "" ELSE " encoding = " \o encoding \o ";")
    \o (IF type.roles_ \cap ClockRoles = {} THEN ""
        ELSE " map = clock." \o clock \o ".value;")
    \o " }"

\* The visit was of a structure of the one field of a type of that kind.
VisitedOneField(kind) ==
    /\ tsdl_call.op = "visit"
    /\ Len(tsdl_call.type.fields_) = 1
    /\ tsdl_call.type.fields_[1].type.kind = kind

\* C18: an integer field is emitted with size and align, then in this order
\* signed iff signed, base iff not decimal, byte_order iff it differs from
\* the trace ABI's, encoding iff an override is pending (the character type
\* of a string of fixed length), map iff it has a default clock timestamp
\* role; the 64-bit hexadecimal timestamp field ts of a little-endian trace
\* with default clock monotonic is emitted as
\* integer { size = 64; align = 8; base = 16; map = clock.monotonic.value; } _ts;
C18_IntegerEmission ==
    /\ (VisitedOneField("integer") /\ tsdl_ret.status = "ok") =>
          LET f == tsdl_call.type.fields_[1]
          IN tsdl_ret.description =
                "struct {\n\t\t"
                \o IntegerText(f.type, tsdl_call.byte_order, NULL,
                               tsdl_call.clock)
                \o " " \o Str(escape_tsdl_identifier(f.name).value) \o ";"
                \o "\n\t}"
    /\ (VisitedOneField("static_length_string")
           /\ tsdl_call.type.fields_[1].type.alignment = 0) =>
          LET f == tsdl_call.type.fields_[1]
          IN tsdl_ret.description =
                "struct {\n\t\t"
                \o IntegerText(integer_type(8, tsdl_call.byte_order, 8,
                                            "UNSIGNED", "DECIMAL", {}),
                               tsdl_call.byte_order, f.type.encoding_,
                               tsdl_call.clock)
                \o " " \o Str(escape_tsdl_identifier(f.name).value)
                \o "[" \o ToString(f.type.length) \o "];"
                \o "\n\t}"
    /\ (/\ tsdl_call.op = "visit"
        /\ tsdl_call.byte_order = "LITTLE_ENDIAN_"
        /\ tsdl_call.clock = "monotonic"
        /\ tsdl_call.type = structure_type(
              <<[name |-> name_ts,
                 type |-> integer_type(8, "LITTLE_ENDIAN_", 64, "UNSIGNED",
                              "HEXADECIMAL", {"DEFAULT_CLOCK_TIMESTAMP"})]>>))
       => tsdl_ret.description =
             "struct {\n\t\tinteger { size = 64; align = 8; base = 16; map = clock.monotonic.value; } _ts;\n\t}"

\* C18 witness: the timestamp field of the example has been emitted, with
\* its base and its clock mapping.
C18_Witness ==
    /\ VisitedOneField("integer")
    /\ tsdl_call.clock = "monotonic"
    /\ tsdl_call.type.fields_[1].type.base_ = "HEXADECIMAL"
    /\ tsdl_call.type.fields_[1].type.roles_ = {"DEFAULT_CLOCK_TIMESTAMP"}
    /\ tsdl_ret.status = "ok"
    /\ tsdl_ret.description =
          "struct {\n\t\tinteger { size = 64; align = 8; base = 16; map = clock.monotonic.value; } _ts;\n\t}"

\* The visit of the example of C19: the structure of the field payload, a
\* dynamic-length UTF8 string of alignment 0 whose length field is length.
VisitedPayloadExample ==
    /\ tsdl_call.op = "visit"
    /\ tsdl_call.type = structure_type(
          <<[name |-> name_payload,
             type |-> [kind |-> "dynamic_length_string", alignment |-> 0,
                       encoding_ |-> "UTF8",
                       length_field_location |-> <<name_length>>]]>>)

\* C19 as stated: the field is emitted as
\* integer { size = 8; align = 8; base = 10; encoding = UTF8; } _payload[_length];
C19_DynamicStringWithBase ==
    VisitedPayloadExample =>
        tsdl_ret.description =
           "struct {\n\t\tinteger { size = 8; align = 8; base = 10; encoding = UTF8; } _payload[_length];\n\t}"

\* C19 as amended: a dynamic-length string field of alignment 0 is emitted
\* with no padding structure, as a dynamic array of 8-bit integers that carry
\* the encoding and, being decimal, no base; the example is emitted as
\* integer { size = 8; align = 8; encoding = UTF8; } _payload[_length];
C19_DynamicStringLowered ==
    /\ (VisitedOneField("dynamic_length_string")
           /\ tsdl_call.type.fields_[1].type.alignment = 0) =>
          LET f == tsdl_call.type.fields_[1]
              location == f.type.length_field_location
          IN /\ tsdl_ret.status = "ok"
             /\ tsdl_ret.description =
                   "struct {\n\t\t"
                   \o "integer { size = 8; align = 8; encoding = "
                   \o f.type.encoding_ \o "; } "
                   \o Str(escape_tsdl_identifier(f.name).value)
                   \o "[" \o Str(escape_tsdl_identifier(
                                 location[Len(location)]).value)
                   \o "];" \o "\n\t}"
    /\ VisitedPayloadExample =>
          tsdl_ret.description =
             "struct {\n\t\tinteger { size = 8; align = 8; encoding = UTF8; } _payload[_length];\n\t}"

\* C19 witness: the example has been emitted.
C19_Witness ==
    /\ VisitedPayloadExample
    /\ tsdl_ret.status = "ok"
    /\ tsdl_ret.description =
          "struct {\n\t\tinteger { size = 8; align = 8; encoding = UTF8; } _payload[_length];\n\t}"

\* The roles of the integers of a type, visited as the emitter visits it.
RECURSIVE RolesOfType(_)
RolesOfType(type) ==
    CASE type.kind = "integer" -> type.roles_
      [] type.kind = "structure" ->
            UNION {RolesOfType(type.fields_[i].type) :
                       i \in 1..Len(type.fields_)}
      [] type.kind \in {"static_length_array", "dynamic_length_array"} ->
            RolesOfType(type.element_type)
      [] OTHER -> {}

\* The stream class of the last call has an integer with a clock role that is
\* emitted by a visitor without default clock class name: the stream class has
\* no default clock class, or the integer is in the event context, whose
\* visitor is built without one.
ClockRoleWithoutClock ==
    /\ tsdl_call.op = "visit_stream_class"
    /\ LET sc == tsdl_call.stream_class
       IN \/ /\ sc.default_clock_class_name = NULL
             /\ (RolesOfType(sc.event_header) \union
                 RolesOfType(sc.packet_context)) \cap ClockRoles # {}
          \/ RolesOfType(sc.event_context) \cap ClockRoles # {}

\* C20 as stated: an integer with the role DEFAULT_CLOCK_TIMESTAMP or
\* PACKET_END_DEFAULT_CLOCK_TIMESTAMP emitted by a visitor without default
\* clock class name makes the emitter raise InvalidFieldType to its caller:
\* the process is not aborted and no fragment of the stream class is appended.
C20_MissingClockRaises ==
    [][\A stream_class \in StreamClasses :
         (VisitStreamClass("LITTLE_ENDIAN_", stream_class)
              /\ ClockRoleWithoutClock') =>
            (tsdl_ret'.status = "throw" /\ metadata' = metadata)]_vars

\* The text of the array lowered from the blob of the one field visited:
\* the padding structure carrying the alignment, the element, the field name
\* and the length suffix, inside the enclosing structure.
BlobFieldText(element, suffix) ==
    LET f == tsdl_call.type.fields_[1]
        name == Str(escape_tsdl_identifier(f.name).value)
    IN "struct {\n\t\t"
       \o (IF f.type.alignment = 0 THEN ""
           ELSE "struct { } align(" \o ToString(f.type.alignment) \o ") "
                \o name \o "_padding;\n\t\t")
       \o element \o " " \o name \o "[" \o suffix \o "];" \o "\n\t}"

\* C21 as stated: a static-length and a dynamic-length blob are both emitted
\* as an array of integer { size = 8; align = 8; base = 16; } that keeps the
\* blob's alignment and its length or the name of its length field.
C21_BlobsLowered ==
    /\ VisitedOneField("static_length_blob") =>
          /\ tsdl_ret.status = "ok"
          /\ tsdl_ret.description =
                BlobFieldText("integer { size = 8; align = 8; base = 16; }",
                    ToString(tsdl_call.type.fields_[1].type.length_bytes))
    /\ VisitedOneField("dynamic_length_blob") =>
          /\ tsdl_ret.status = "ok"
          /\ tsdl_ret.description =
                BlobFieldText("integer { size = 8; align = 8; base = 16; }",
                    LET location == tsdl_call.type.fields_[1].type
                                        .length_field_location
                    IN Str(escape_tsdl_identifier(
                               location[Len(location)]).value))

\* The visit was of one of the structures of a tag, a variant and a sibling.
VisitedVariant ==
    /\ tsdl_call.op = "visit"
    /\ tsdl_call.type \in VariantStructures

\* The text of a choice of the variant as C22 describes it: the type, whose
\* nested structure fields are escaped, then the choice name as it is.
ChoiceText(choice, abi_byte_order) ==
    "\t\t\t"
    \o (IF choice.type.kind = "structure"
        THEN "struct {\n\t\t\t\t"
             \o IntegerText(choice.type.fields_[1].type, abi_byte_order,
                            NULL, NULL)
             \o " "
             \o Str(escape_tsdl_identifier(choice.type.fields_[1].name).value)
             \o ";\n\t\t\t}"
        ELSE IntegerText(choice.type, abi_byte_order, NULL, NULL))
    \o " " \o Str(choice.name) \o ";\n"

RECURSIVE ChoicesText(_, _)
ChoicesText(choices, abi_byte_order) ==
    IF choices = <<>> THEN ""
    ELSE ChoiceText(Head(choices), abi_byte_order)
         \o ChoicesText(Tail(choices), abi_byte_order)

\* The text of the mappings of the tag: the names as they are.
RECURSIVE MappingsText(_)
MappingsText(mappings) ==
    IF mappings = <<>> THEN ""
    ELSE "\t\t\t\"" \o Str(Head(mappings).name) \o "\" = "
         \o ToString(Head(mappings).begin)
         \o (IF Len(mappings) > 1 THEN ",\n" ELSE "\n")
         \o MappingsText(Tail(mappings))

\* C22: inside a variant every choice name is emitted as it is, identical to
\* the name of the enumeration mapping; the field names of a structure nested
\* in a choice are escaped; the field that follows the variant is escaped as
\* the fields before it.
C22_VariantChoiceNamesVerbatim ==
    VisitedVariant =>
        LET tag == tsdl_call.type.fields_[1]
            var == tsdl_call.type.fields_[2]
            sibling == tsdl_call.type.fields_[3]
            abi == tsdl_call.byte_order
        IN /\ tsdl_ret.status = "ok"
           /\ tsdl_ret.description =
                 "struct {\n\t\t"
                 \o "enum : " \o IntegerText(tag.type, abi, NULL, NULL)
                 \o " {\n" \o MappingsText(tag.type.mappings_) \o "\t\t}"
                 \o " " \o Str(escape_tsdl_identifier(tag.name).value) \o ";"
                 \o "\n\t\t"
                 \o (IF var.type.alignment = 0 THEN ""
                     ELSE "struct { } align("
                          \o ToString(var.type.alignment) \o ") "
                          \o Str(escape_tsdl_identifier(var.name).value)
                          \o "_padding;\n\t\t")
                 \o "variant <"
                 \o Str(escape_tsdl_identifier(
                            var.type.selector_field_location[1]).value)
                 \o "> {\n"
                 \o ChoicesText(var.type.choices_, abi)
                 \o "\t\t}"
                 \o " " \o Str(escape_tsdl_identifier(var.name).value) \o ";"
                 \o "\n\t\t"
                 \o IntegerText(sibling.type, abi, NULL, NULL)
                 \o " " \o Str(escape_tsdl_identifier(sibling.name).value)
                 \o ";" \o "\n\t}"

\* C22 witness: a variant whose choice a! is a structure with a field a! has
\* been emitted: the choice is written a!, the field _a_, the sibling
\* _my_field_.
C22_Witness ==
    /\ VisitedVariant
    /\ tsdl_call.byte_order = "LITTLE_ENDIAN_"
    /\ tsdl_call.type.fields_[2].type.alignment = 0
    /\ tsdl_call.type.fields_[2].type.choices_ =
          <<[name |-> name_a_bang,
             type |-> structure_type(<<[name |-> name_a_bang,
                                        type |-> uint32]>>)]>>
    /\ tsdl_ret.status = "ok"
    /\ tsdl_ret.description =
          "struct {\n\t\tenum : integer { size = 8; align = 8; } {\n\t\t\t\"a!\" = 0\n\t\t} _tag;\n\t\tvariant <_tag> {\n\t\t\tstruct {\n\t\t\t\tinteger { size = 32; align = 8; } _a_;\n\t\t\t} a!;\n\t\t} _payload;\n\t\tinteger { size = 32; align = 8; } _my_field_;\n\t}"

\* s begins with prefix / ends with suffix
BeginsWith(s, prefix) ==
    Len(s) >= Len(prefix) /\ SubSeq(s, 1, Len(prefix)) = prefix

EndsWith(s, suffix) ==
    Len(s) >= Len(suffix)
       /\ SubSeq(s, Len(s) - Len(suffix) + 1, Len(s)) = suffix

\* The step appends n fragments after those already appended.
Appended(n) ==
    /\ Len(metadata') = Len(metadata) + n
    /\ SubSeq(metadata', 1, Len(metadata)) = metadata

\* The step is a visit by the trace class visitor.
VisitStep ==
    \/ \E trace_class \in TraceClasses : VisitTraceClass(trace_class)
    \/ \E clock_class \in ClockClasses : VisitClockClass(clock_class)
    \/ \E stream_class \in StreamClasses :
          VisitStreamClass("LITTLE_ENDIAN_", stream_class)
    \/ \E event_class \in EventClasses :
          VisitEventClass("LITTLE_ENDIAN_", event_class)

\* C23: a visit of a trace class that returns appends exactly two fragments,
\* the trace fragment, which begins with /* CTF 1.8 */, then the env
\* fragment; a visit of a clock class, a stream class or an event class that
\* returns appends exactly one; the fragments are appended after those of the
\* earlier visits; every fragment ends with ; and two newlines. A visit that
\* does not return appends none, and nothing else appends.
C23_FragmentsAppendedInOrder ==
    [][/\ \A trace_class \in TraceClasses :
             (VisitTraceClass(trace_class) /\ tsdl_ret'.status = "ok") =>
                /\ Appended(2)
                /\ BeginsWith(metadata'[Len(metadata) + 1],
                              "/* CTF 1.8 */\n\ntrace {\n")
                /\ BeginsWith(metadata'[Len(metadata) + 2], "env {\n")
       /\ \A clock_class \in ClockClasses :
             (VisitClockClass(clock_class) /\ tsdl_ret'.status = "ok") =>
                /\ Appended(1)
                /\ BeginsWith(metadata'[Len(metadata')], "clock {\n")
       /\ \A stream_class \in StreamClasses :
             (VisitStreamClass("LITTLE_ENDIAN_", stream_class)
                  /\ tsdl_ret'.status = "ok") =>
                /\ Appended(1)
                /\ BeginsWith(metadata'[Len(metadata')], "stream {\n")
       /\ \A event_class \in EventClasses :
             (VisitEventClass("LITTLE_ENDIAN_", event_class)
                  /\ tsdl_ret'.status = "ok") =>
                /\ Appended(1)
                /\ BeginsWith(metadata'[Len(metadata')], "event {\n")
       /\ (~VisitStep \/ tsdl_ret'.status # "ok") => metadata' = metadata
       /\ \A i \in 1..Len(metadata') : EndsWith(metadata'[i], ";\n\n")
      ]_vars

\* C23 witness: a clock class, then a trace class have been visited: the
\* clock fragment, the trace fragment and the env fragment were appended in
\* that order.
C23_Witness ==
    /\ Len(metadata) = 3
    /\ tsdl_call.op = "visit_trace_class"
    /\ tsdl_ret.status = "ok"
    /\ BeginsWith(metadata[1], "clock {\n")
    /\ BeginsWith(metadata[2], "/* CTF 1.8 */\n\ntrace {\n")
    /\ BeginsWith(metadata[3], "env {\n")
    /\ \A i \in 1..3 : EndsWith(metadata[i], ";\n\n")

\* The text of a structure of one integer field emitted at the top of a
\* fragment, its clock mapping naming the clock.
OneIntegerStructText(type, abi_byte_order, clock) ==
    "struct {\n\t\t"
    \o IntegerText(type.fields_[1].type, abi_byte_order, NULL, clock)
    \o " " \o Str(escape_tsdl_identifier(type.fields_[1].name).value)
    \o ";\n\t}"

\* C24: a stream class fragment has event.header, packet.context and
\* event.context, in that order, each iff the type is present; the event
\* header and the packet context are emitted with the default clock class
\* name of the stream class (their timestamps map to it), the event context
\* and the payload of an event class with none: a clock timestamp role there
\* finds no clock class name, whatever the stream class's, and the visit does
\* not return.
C24_StreamClassFragment ==
    /\ tsdl_call.op = "visit_stream_class" =>
          LET sc == tsdl_call.stream_class
              abi == tsdl_call.byte_order
              clock == sc.default_clock_class_name
          IN /\ tsdl_ret.status = "ok" <=> ~ClockRoleWithoutClock
             /\ tsdl_ret.status = "ok" =>
                   /\ tsdl_ret.fragment =
                         "stream {\n\tid = " \o ToString(sc.id) \o ";\n"
                         \o (IF sc.event_header = no_type THEN ""
                             ELSE "\tevent.header := "
                                  \o OneIntegerStructText(sc.event_header,
                                                          abi, clock)
                                  \o ";\n")
                         \o (IF sc.packet_context = no_type THEN ""
                             ELSE "\tpacket.context := "
                                  \o OneIntegerStructText(sc.packet_context,
                                                          abi, clock)
                                  \o ";\n")
                         \o (IF sc.event_context = no_type THEN ""
                             ELSE "\tevent.context := "
                                  \o OneIntegerStructText(sc.event_context,
                                                          abi, NULL)
                                  \o ";\n")
                         \o "};\n\n"
                   /\ metadata[Len(metadata)] = tsdl_ret.fragment
    /\ tsdl_call.op = "visit_event_class" =>
          LET ec == tsdl_call.event_class
          IN /\ tsdl_ret.status = "ok" <=>
                   RolesOfType(ec.payload) \cap ClockRoles = {}
             /\ tsdl_ret.status = "ok" =>
                   metadata[Len(metadata)] =
                      "event {\n\tname = \"" \o ec.name \o "\";\n\tid = "
                      \o ToString(ec.id) \o ";\n\tstream_id = "
                      \o ToString(ec.stream_class_id) \o ";\n\tloglevel = "
                      \o ToString(ec.log_level) \o ";\n"
                      \o (IF ec.model_emf_uri = NULL THEN ""
                          ELSE "\tmodel.emf.uri = \"" \o ec.model_emf_uri
                               \o "\";\n")
                      \o "\tfields := "
                      \o OneIntegerStructText(ec.payload,
                                              tsdl_call.byte_order, NULL)
                      \o ";\n};\n\n"

\* C24 witness: a stream class of default clock monotonic with the three
\* types has been emitted; header and packet context map to the clock.
C24_Witness ==
    /\ tsdl_call.op = "visit_stream_class"
    /\ tsdl_call.stream_class =
          [id |-> 0, default_clock_class_name |-> "monotonic",
           event_header |-> header_ts, packet_context |-> context_clock,
           event_context |-> context_plain]
    /\ tsdl_ret.status = "ok"
    /\ metadata[Len(metadata)] =
          "stream {\n\tid = 0;\n\tevent.header := struct {\n\t\tinteger { size = 64; align = 8; map = clock.monotonic.value; } _ts;\n\t};\n\tpacket.context := struct {\n\t\tinteger { size = 64; align = 8; map = clock.monotonic.value; } _ts;\n\t};\n\tevent.context := struct {\n\t\tinteger { size = 32; align = 8; } id;\n\t};\n};\n\n"

\* The type as TSDL expresses it: a blob is an array of 8-bit unsigned
\* hexadecimal integers of the trace's byte order, and of the location of a
\* length field only the last name is written.
RECURSIVE TsdlDetail(_, _)
TsdlDetail(abi, type) ==
    CASE type.kind = "static_length_blob" ->
            static_length_array_type(type.alignment,
                integer_type(8, abi.byte_order, 8, "UNSIGNED", "HEXADECIMAL",
                             {}),
                type.length_bytes)
      [] type.kind = "dynamic_length_blob" ->
            dynamic_length_array_type(type.alignment,
                integer_type(8, abi.byte_order, 8, "UNSIGNED", "HEXADECIMAL",
                             {}),
                <<type.length_field_location[Len(type.length_field_location)]>>)
      [] type.kind = "static_length_array" ->
            [type EXCEPT !.element_type = TsdlDetail(abi, @)]
      [] type.kind = "dynamic_length_array" ->
            [type EXCEPT !.element_type = TsdlDetail(abi, @),
                         !.length_field_location = <<@[Len(@)]>>]
      [] type.kind = "structure" ->
            [type EXCEPT !.fields_ =
                [i \in 1..Len(@) |->
                    [@[i] EXCEPT !.type = TsdlDetail(abi, @)]]]
      [] type.kind = "variant" ->
            [type EXCEPT !.choices_ =
                [i \in 1..Len(@) |->
                    [@[i] EXCEPT !.type = TsdlDetail(abi, @)]]]
      [] OTHER -> type

\* C25 as stated: the type is recovered from its emitted text, up to the
\* detail TSDL expresses. The text determines what is recovered, so two types
\* emitted as the same text under the same trace ABI have the same detail.
C25_EmitRoundTrip ==
    (/\ tsdl_call.op = "visit"
     /\ tsdl_call.type \in RoundTripTypes
     /\ tsdl_ret.status = "ok") =>
        LET abi == [byte_order |-> tsdl_call.byte_order]
        IN \A T \in RoundTripTypes :
              LET emitted == visit_type(
                                 tsdl_field_visitor(abi, 1, tsdl_call.clock),
                                 T)
              IN (emitted.status = "ok"
                     /\ emitted.description = tsdl_ret.description) =>
                    TsdlDetail(abi, T) = TsdlDetail(abi, tsdl_call.type)

\* the outputs whose output_init took an id, and those given no name
IdTaken(o) == snapshot_output[o].state # "none"

Unnamed(o) == IdTaken(o) /\ snapshot_output[o].arg_name \in {NULL, ""}

\* C26 as stated: an output initialised without a name has as id the number
\* of outputs initialised on the snapshot object before, plus one, and the
\* name snapshot-<id>.
C26_IdCountsInitialisedOutputs ==
    \A o \in OutputObj :
       (Unnamed(o) /\ snapshot_output[o].state = "done"
                   /\ snapshot_output[o].ret \in OutputInitOk) =>
          /\ snapshot_output[o].id = snapshot_output[o].initialised_before + 1
          /\ snapshot_output[o].name =
                "snapshot-" \o ToString(snapshot_output[o].id)

\* C26 as amended: the id of an output is the number of output_init calls
\* made on the snapshot object before, whatever they returned and finished
\* or not, plus one; an output initialised without a name is named
\* snapshot-<id>, snapshot-1 when its call is the first one; the ids given by
\* one snapshot object are pairwise distinct, the calls being interleaved.
C26_IdCountsInitCalls ==
    /\ \A o \in OutputObj :
          IdTaken(o) =>
             snapshot_output[o].id = snapshot_output[o].calls_before + 1
    /\ \A o \in OutputObj :
          (Unnamed(o) /\ snapshot_output[o].state = "done") =>
             /\ snapshot_output[o].name =
                   "snapshot-" \o ToString(snapshot_output[o].id)
             /\ snapshot_output[o].calls_before = 0 =>
                   snapshot_output[o].name = "snapshot-1"
    /\ \A o1, o2 \in OutputObj :
          (IdTaken(o1) /\ IdTaken(o2) /\ o1 # o2) =>
             snapshot_output[o1].id # snapshot_output[o2].id

\* C26 witness: two output_init calls without a name have returned, the
\* second begun before the first returned; the outputs are named snapshot-1
\* and snapshot-2.
C26_Witness ==
    /\ snapshot_output[1].state = "done"
    /\ snapshot_output[2].state = "done"
    /\ snapshot_output[2].initialised_before = 0
    /\ snapshot_output[1].name = "snapshot-1"
    /\ snapshot_output[2].name = "snapshot-2"
    /\ snapshot_output[1].ret \in OutputInitOk
    /\ snapshot_output[2].ret \in OutputInitOk

\* Thread th is in the release or destroy step of the ctf_trace_put made at
\* the error label of ctf_trace_create: the trace was never added to a table.
OnCreateErrorPath(th) ==
    /\ pc[th] \in {"release", "destroy"}
    /\ trace[loc[th].node].node_key = NULL

\* C27 as stated: when ctf_trace_create cannot take the session reference or
\* cannot copy the subpath, no assertion of the release and destroy path is
\* violated (and no fault occurs), the session's table is left as it is, the
\* session reference taken, if any, is given back, and the caller gets no
\* trace.
C27_CreateFailureIsClean ==
    [][\A th \in Threads :
          /\ (CreateError(th) \/ (OnCreateErrorPath(th)
                                    /\ (CtfTraceRelease(th)
                                           \/ CtfTraceDestroy(th)))) =>
                /\ aborted' = "no"
                /\ ctf_traces_ht' = ctf_traces_ht
          /\ (OnCreateErrorPath(th) /\ CtfTraceDestroy(th)) =>
                /\ loc'[th].trace = 0
                /\ \A s \in Sessions :
                      session_ref'[s] =
                         IF trace[loc[th].node].session = s
                         THEN session_ref[s] - 1 ELSE session_ref[s]
      ]_vars

\* the traces that hold a reference on session s: trace->session is set when
\* session_get succeeded and cleared by the session_put of ctf_trace_destroy
TracesHolding(s) == {t \in TraceObj : trace[t].session = s}

\* C28: a trace holds one reference on its session from before it is
\* published until its count has reached zero and gives it back once: the
\* count of a session is that of its owner plus one per such trace, only the
\* destroy of a trace holding the session (or the owner) lowers it, a
\* published trace holds its session, and the count of a session is not zero
\* while one of its traces has a count above zero.
C28_TraceHoldsSessionReference ==
    [][/\ \A s \in CtfSessions :
             /\ session_ref'[s] = (IF session_owner'[s] THEN 1 ELSE 0)
                                     + Cardinality(TracesHolding(s)')
             /\ session_ref'[s] < session_ref[s] =>
                   \/ SessionOwnerPut(s)
                   \/ \E th \in Threads :
                         /\ CtfTraceDestroy(th)
                         /\ trace[loc[th].node].session = s
                         /\ trace[loc[th].node].ref = 0
                         /\ trace'[loc[th].node].session = NULL
                         /\ session_ref'[s] = session_ref[s] - 1
             /\ \A t \in ctf_traces_ht'[s] : trace'[t].session = s
       /\ \A t \in TraceObj :
             (trace'[t].ref > 0 /\ trace'[t].session # NULL) =>
                session_ref'[trace'[t].session] > 0
      ]_vars

\* C28 witness: the owner of the session has put its reference and a
\* published trace with a count above zero is what keeps the session's count
\* at one.
C28_Witness ==
    \E s \in CtfSessions, t \in TraceObj :
       /\ ~session_owner[s]
       /\ t \in ctf_traces_ht[s]
       /\ trace[t].ref > 0
       /\ trace[t].session = s
       /\ session_ref[s] = 1

\* C29: whenever the reference count of a ctf_trace reaches zero its stream
\* list is empty: the assertion at the start of ctf_trace_destroy
\* (cds_list_empty(&trace->stream_list)) holds each time ctf_trace_destroy
\* runs, because every relay stream linked in the list holds one reference.
C29_DestroyedTraceHasNoStreams ==
    [][\A th \in Threads :
          CtfTraceDestroy(th) =>
             /\ trace[loc[th].node].ref = 0
             /\ trace[loc[th].node].list_init
             /\ trace[loc[th].node].stream_list = <<>>
             /\ aborted' = "no"
      ]_vars

\* C30: after any sequence of viewer_session_attach (whatever its outcome,
\* a failed trace chunk copy included), viewer_session_detach and
\* viewer_session_close calls, session->viewer_attached is true if and only
\* if the session is linked in the session_list of some viewer session.
C30_AttachedIffLinked ==
    \A s \in Sessions : viewer_attached[s] <=> Linked(s)

\* C31: viewer_session_close_one_session(vsession, session) leaves alone the
\* session_list of every other viewer session, the viewer_attached flag and
\* the reference count of every other relay session, and the reference count
\* of every viewer stream of another session; in particular a session that
\* is attached to a different viewer session is not detached from that one.
C31_CloseOneSessionFrame ==
    [][\A vs \in VSessions, s \in Sessions :
          (CloseOneSession(vs, s) /\ aborted' = "no") =>
             /\ \A v \in VSessions \ {vs} : session_list'[v] = session_list[v]
             /\ \A t \in Sessions \ {s} :
                   /\ viewer_attached'[t] = viewer_attached[t]
                   /\ session_ref'[t] = session_ref[t]
             /\ \A x \in VStreamObj :
                   viewer_streams_ht[x].session # s =>
                      viewer_streams_ht'[x] = viewer_streams_ht[x]
      ]_vars

\* C32: every traversal of the global viewer stream table, with the
\* viewer_stream_get made on each entry found there, happens inside a
\* read-side (RCU) critical section of the calling thread, whether
\* viewer_session_close_one_session is called through viewer_session_close
\* or directly.
C32_TableReadInsideRcu ==
    [][\A t \in ViewerThreads : LkTraverse(t) => rcu_nesting[t] > 0]_vars

\* the lock a thread is about to take, and whether another thread holds it
LkBlocked(t) ==
    \/ /\ vcall[t].pc = "detach"
       /\ session_lock[vcall[t].session] # NULL
    \/ /\ vcall[t].pc \in {"attach_list_lock", "detach_list_lock"}
       /\ session_list_lock[vcall[t].vsession] # NULL

\* the locks thread t holds
LkHeld(t) ==
    {s \in Sessions : session_lock[s] = t}
       \cup {v \in VSessions : session_list_lock[v] = t}

\* C33: vsession->session_list_lock is only acquired while the lock of the
\* relay session is held, no session lock is acquired while a
\* session_list_lock is held, and every lock that attach, detach and
\* is_attached acquire is released when they return (attach returns to its
\* caller, who holds session->lock, without the list lock). Hence concurrent
\* attach, detach, is_attached and close calls do not deadlock: as long as a
\* thread is inside a call, some thread inside a call can take a step.
C33_LockDiscipline ==
    /\ [](Running /\ (\E t \in ViewerThreads : vcall[t].pc # "idle")
            => \E t \in ViewerThreads :
                  /\ vcall[t].pc # "idle"
                  /\ ~LkBlocked(t)
                  /\ ENABLED LkStep(t))
    /\ [][\A t \in ViewerThreads :
             /\ \A v \in VSessions :
                   (session_list_lock'[v] = t /\ session_list_lock[v] # t) =>
                      /\ session_lock[vcall[t].session] = t
                      /\ session_lock'[vcall[t].session] = t
             /\ \A s \in Sessions :
                   (session_lock'[s] = t /\ session_lock[s] # t) =>
                      \A v \in VSessions : session_list_lock[v] # t
             /\ (vcall[t].fn \in {"close", "close_one_session", "is_attached"}
                   /\ vcall'[t].pc \in {"idle", "traverse", "rcu_unlock"}
                   /\ vcall[t].pc \notin {"idle", "traverse", "rcu_unlock"})
                   => LkHeld(t)' = {}
             /\ (vcall[t].fn = "attach" /\ vcall'[t].pc = "attach_return") =>
                   LkHeld(t)' = {vcall[t].session}
             /\ (vcall[t].fn = "attach" /\ vcall'[t].pc = "idle") =>
                   LkHeld(t)' = {}
         ]_vars

\* One thread holds the lock of its session and the list lock while the
\* other, holding the lock of another session, waits for the list lock.
C33_Witness ==
    /\ session_lock["s1"] = "t1"
    /\ session_list_lock["v1"] = "t1"
    /\ session_lock["s2"] = "t2"
    /\ vcall["t2"].pc \in {"attach_list_lock", "detach_list_lock"}
    /\ vcall["t2"].vsession = "v1"

\* C34: viewer_session_detach on a relay session whose viewer_attached flag
\* is false returns -1 and changes nothing: the flag, the session_list of
\* every viewer session and the reference count of the session are as
\* before, and session->lock is released when it returns.
C34_DetachNotAttached ==
    [][\A t \in ViewerThreads :
          /\ (LkDetachFlag(t) /\ ~viewer_attached[vcall[t].session]) =>
                /\ vcall'[t].ret = "-1"
                /\ vcall'[t].pc = "detach_unlock"
                /\ viewer_attached' = viewer_attached
                /\ session_list' = session_list
                /\ session_ref' = session_ref
                /\ aborted' = "no"
          /\ (LkDetachUnlock(t) /\ vcall[t].ret = "-1") =>
                /\ session_lock'[vcall[t].session] = NULL
                /\ LkHeld(t)' = {}
                /\ viewer_attached' = viewer_attached
                /\ session_list' = session_list
                /\ session_ref' = session_ref
      ]_vars

\* viewer_session_close has come back from a detach that returned -1, on a
\* session another thread detached in between.
C34_Witness ==
    \E t \in ViewerThreads :
       /\ vcall[t].fn = "close"
       /\ vcall[t].pc = "rcu_unlock"
       /\ vcall[t].ret = "-1"
       /\ session_lock[vcall[t].session] = NULL
       /\ ~viewer_attached[vcall[t].session]

\* the structure whose only field, payload, has the given type
PayloadStruct(type) == structure_type(<<[name |-> name_payload, type |-> type]>>)

\* C35: in the emitted text an array length suffix comes immediately after
\* the name of the structure field or variant choice whose type is the array,
\* and no suffix is pending once a structure field or a variant choice has
\* been emitted: the [4] of an array field follows the field name, the [4] of
\* an array choice A follows A (not the name of the variant's field), and the
\* [4] of an array of variants follows the name of the array's field.
C35_SuffixFollowsItsField ==
    (tsdl_call.op = "visit" /\ tsdl_ret.status = "ok") =>
        LET uint32_text == IntegerText(uint32, tsdl_call.byte_order, NULL,
                                       NULL)
        IN /\ tsdl_call.type.kind = "structure" =>
                 tsdl_ret.type_suffixes = <<>>
           /\ tsdl_call.type
                 = PayloadStruct(static_length_array_type(0, uint32, 4)) =>
                 tsdl_ret.description =
                    "struct {\n\t\t" \o uint32_text \o " _payload[4];\n\t}"
           /\ tsdl_call.type = PayloadStruct(array_of_variant) =>
                 tsdl_ret.description =
                    "struct {\n\t\tvariant <_tag> {\n\t\t\t" \o uint32_text
                    \o " A;\n\t\t} _payload[4];\n\t}"
           /\ tsdl_call.type = PayloadStruct(variant_of_array) =>
                 tsdl_ret.description =
                    "struct {\n\t\tvariant <_tag> {\n\t\t\t" \o uint32_text
                    \o " A[4];\n\t\t} _payload;\n\t}"

\* C36: the traversal state of the field visitor is balanced: after the
\* visit of a type the indentation level, the identifier escape bypass flag
\* and the field name stack are what they were before it, and the integer
\* encoding override set for a lowered string is used by the next integer
\* emitted and cleared: the integer field that follows a string, a variant,
\* an array or a structure is emitted at the indentation of its structure,
\* escaped, and without encoding attribute.
C36_TraversalStateBalanced ==
    (tsdl_call.op = "visit" /\ tsdl_ret.status = "ok") =>
        /\ tsdl_ret.indentation_level = 1
        /\ ~tsdl_ret.bypass_identifier_escape
        /\ tsdl_ret.current_field_name = <<>>
        /\ tsdl_ret.current_integer_encoding_override = NULL
        /\ tsdl_call.type \in BalanceTypes =>
              EndsWith(tsdl_ret.description,
                       ";\n\t\t"
                       \o IntegerText(uint32, tsdl_call.byte_order, NULL,
                                      NULL)
                       \o " "
                       \o Str(escape_tsdl_identifier(name_my_field).value)
                       \o ";\n\t}")

\* A static length ASCII string, lowered to an array of integers that carry
\* the encoding, has been emitted before the integer field.
C36_Witness ==
    /\ tsdl_call.op = "visit"
    /\ tsdl_call.byte_order = "LITTLE_ENDIAN_"
    /\ tsdl_call.type =
          structure_type(<<[name |-> name_payload,
                            type |-> [kind |-> "static_length_string",
                                      alignment |-> 0, encoding_ |-> "ASCII",
                                      length |-> 16]],
                           [name |-> name_my_field, type |-> uint32]>>)
    /\ tsdl_ret.status = "ok"
    /\ tsdl_ret.description =
          "struct {\n\t\tinteger { size = 8; align = 8; encoding = ASCII; } _payload[16];\n\t\tinteger { size = 32; align = 8; } _my_field_;\n\t}"

\* the ids of the outputs in the table are pairwise distinct
DistinctIds(ht) ==
    \A o1, o2 \in ht.nodes :
       snapshot_output[o1].id = snapshot_output[o2].id => o1 = o2

\* C37: after any sequence of snapshot_add_output, snapshot_delete_output
\* and snapshot_destroy calls, nb_output is the number of outputs in
\* output_ht and no two outputs of the table have the same id.
C37_NbOutputCountsTable ==
    aborted = "no" =>
       /\ nb_output = Cardinality(output_ht.nodes)
       /\ DistinctIds(output_ht)

\* the outputs of the table whose name is exactly name
NamedExactly(name) == {o \in output_ht.nodes : output_name(o) = name}

\* C38: snapshot_find_output_by_name(name, snapshot) returns an output of
\* the snapshot whose name is equal to name, and NULL when no output of the
\* snapshot has exactly that name.
C38_FindByNameIsExact ==
    [][\A name \in FindNames, o \in 0..MaxOutputs :
          SnapshotFindOutputByName(name, o) =>
             IF NamedExactly(name) = {} THEN snapshot_ret'.ret = 0
             ELSE snapshot_ret'.ret \in NamedExactly(name)]_vars

Spec == Init /\ [][Next]_vars

SpecClose == Init /\ [][NextClose]_vars

NextVms ==
    \/ \E th \in Worker : ThreadStep(th, RacePaths)
    \/ \E th \in Worker, st \in StreamObj : StreamCreate(th, st)
    \/ \E th \in Worker : GvmsDeref(th)
    \/ \E th \in Worker : GvmsGet(th)
    \/ \E th \in Worker : VstreamPut(th)
    \/ \E t \in TraceObj : VstreamPublish(t)
    \/ \E t \in TraceObj : VstreamOwnerPut(t)
    \/ \E t \in TraceObj : VstreamRelease(t)
    \/ \E t \in TraceObj : rcu_destroy_ctf_trace(t)

SpecVms == Init /\ [][NextVms]_vars

NextVS ==
    /\ UNCHANGED lockvars
    /\ \/ \E vs \in VSessions, s \in Sessions, copy_ok \in BOOLEAN :
             viewer_session_attach(vs, s, copy_ok)
       \/ \E vs \in VSessions, s \in Sessions : CloseOneSession(vs, s)
       \/ \E vs \in VSessions : ViewerSessionClose(vs)
       \/ \E v \in VStreamObj, s \in Sessions : ViewerStreamCreate(v, s)
       \/ \E v \in VStreamObj : ViewerStreamPut(v)

SpecVS == Init /\ [][NextVS]_vars

SpecEmit == Init /\ [][NextEmit]_vars

SpecMetadata == Init /\ [][NextMetadata]_vars

\* the inputs output_init reads: the URIs only with a consumer that was
\* copied, the path only for a path URI, the network result only for two
\* network URIs
NextSnapshot ==
    \/ \E o \in OutputObj, max_size \in {"-1ULL", "4096"},
          name \in OutputNames : OutputInitId(o, max_size, name)
    \/ \E o \in OutputObj : OutputInitRest(o, NULL, TRUE, 0, "LTTNG_DST_PATH", TRUE, "0")
    \/ \E o \in OutputObj : OutputInitRest(o, "consumer", FALSE, 0, "LTTNG_DST_PATH", TRUE, "0")
    \/ \E o \in OutputObj, nb_uri \in 0..2, path_fits \in BOOLEAN :
          OutputInitRest(o, "consumer", TRUE, nb_uri, "LTTNG_DST_PATH", path_fits, "0")
    \/ \E o \in OutputObj, nb_uri \in 1..2, net_ret \in {"0", "-1"} :
          OutputInitRest(o, "consumer", TRUE, nb_uri, "LTTNG_DST_IPV4", TRUE, net_ret)

SpecSnapshot == Init /\ [][NextSnapshot]_vars

\* One step of the owner of the snapshot object, which holds the session's
\* lock: the calls are made one after the other.
NextSnapTable ==
    \/ \E o \in OutputObj, name \in OutputNames :
          OutputInitId(o, "-1ULL", name)
    \/ \E o \in OutputObj :
          OutputInitRest(o, NULL, TRUE, 0, "LTTNG_DST_PATH", TRUE, "0")
    \/ \E o \in OutputObj, asserts \in BOOLEAN : SnapshotAddOutput(o, asserts)
    \/ \E o \in OutputObj : SnapshotDeleteOutput(o)
    \/ SnapshotDestroy
    \/ \E name \in FindNames, o \in 0..MaxOutputs :
          SnapshotFindOutputByName(name, o)

SpecSnapTable == Init /\ [][NextSnapTable]_vars
NextVLock ==
    \/ \E t \in ViewerThreads : LkStep(t)
    \/ ViewerStreamCreate(1, "s1") /\ UNCHANGED lockvars

SpecVLock == Init /\ [][NextVLock]_vars
====
